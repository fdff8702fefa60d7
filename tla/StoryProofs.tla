------------------------------ MODULE StoryProofs ------------------------------
(***************************************************************************)
(* Proofs about what a PDF shows of a document: the numbers of list items  *)
(* count (ItemsCount), and every text that is to be seen is drawn once,    *)
(* with all its lines and in its place (TextsDrawnOnce).                   *)
(*                                                                         *)
(* The first half is about the list states of outlines.  The second shows  *)
(* that conversion loses no node and puts each list in the order of the    *)
(* file; that what is drawn, on the stack and still to come are in the     *)
(* order of the tree; and that the lines of a text which are drawn and     *)
(* those which are still to be drawn stay the same number.                 *)
(***************************************************************************)
EXTENDS DocumentProofs

-----------------------------------------------------------------------------
(* What a reader makes of digits.                                          *)
ReadLoop(g, digits, scale, shift) ==
    /\ g \in [0..Len(digits) -> Nat]
    /\ g[0] = 0 /\ ReadAs(digits, scale, shift) = g[Len(digits)]
    /\ \A k \in 1..Len(digits) : g[k] = scale * g[k - 1] + digits[k] + shift

LEMMA ReadIs ==
    ASSUME NEW digits \in Seq(Nat), NEW scale \in {1, 26}, NEW shift \in Nat
    PROVE  \E g : ReadLoop(g, digits, scale, shift)
<1> DEFINE n == Len(digits)
           turn  == [k \in Nat \ {0} |-> [t \in Nat |->
                       IF k \in 1..n THEN scale * t + digits[k] + shift ELSE t]]
           Is(f) == f = [k \in 0..n |-> IF k = 0 THEN 0 ELSE scale * f[k - 1] + digits[k] + shift]
           out   == CHOOSE f : Is(f)
<1>1. n \in Nat /\ \A k \in 1..n : digits[k] \in Nat
  BY LenProperties, ElementOfSeq
<1> HIDE DEF n
<1>2. turn \in [Nat \ {0} -> [Nat -> Nat]]
  <2> SUFFICES ASSUME NEW k \in 1..n, NEW t \in Nat
               PROVE  scale * t + digits[k] + shift \in Nat
    OBVIOUS
  <2>1. digits[k] \in Nat
    BY <1>1
  <2>2. CASE scale = 1
    BY <2>1, <2>2
  <2>3. CASE scale = 26
    BY <2>1, <2>3
  <2> QED
    BY <2>2, <2>3
<1>3. PICK g \in [0..n -> Nat] : IsLoop(g, n, 0, turn)
  <2> HIDE DEF turn
  <2> QED
    BY <1>1, <1>2, LoopExists
<1>4. g[0] = 0 /\ \A k \in 1..n : g[k] = turn[k][g[k - 1]]
  BY <1>3 DEF IsLoop
<1>5. \A k \in 1..n : g[k] = scale * g[k - 1] + digits[k] + shift
  <2> TAKE k \in 1..n
  <2>1. k \in Nat \ {0} /\ k - 1 \in 0..n /\ k \in 1..n
    BY <1>1
  <2>2. g[k - 1] \in Nat
    BY <2>1
  <2> QED
    BY <1>4, <2>1, <2>2
<1>6. Is(g)
  <2>1. \A k \in 0..n : k # 0 => k \in 1..n
    BY <1>1
  <2>2. \A k \in 0..n : g[k] = IF k = 0 THEN 0 ELSE scale * g[k - 1] + digits[k] + shift
    BY <1>4, <1>5, <2>1
  <2>3. g = [k \in 0..n |-> g[k]]
    OBVIOUS
  <2> QED
    BY <2>2, <2>3
<1>7. Is(out)
  <2> HIDE DEF Is
  <2> QED
    BY <1>6
<1>8. PICK h : Is(h) /\ ReadAs(digits, scale, shift) = h[n]
  <2>1. ReadAs(digits, scale, shift) = out[n]
    BY DEF ReadAs, n
  <2> HIDE DEF Is, out
  <2> QED
    BY <1>7, <2>1
<1>9. h[0] = 0 /\ \A k \in 1..n : h[k] = scale * h[k - 1] + digits[k] + shift
  <2>1. 0 \in 0..n /\ \A k \in 1..n : k \in 0..n /\ k # 0
    BY <1>1
  <2> QED
    BY <1>8, <2>1
<1>10. h[n] = g[n]
  <2>1. h[0] = g[0]
    BY <1>4, <1>9
  <2>2. \A k \in 1..n : h[k - 1] = g[k - 1] => h[k] = g[k]
    BY <1>5, <1>9
  <2>3. n \in Nat
    BY <1>1
  <2> HIDE DEF n, Is
  <2> QED
    BY <2>1, <2>2, <2>3, StepsAgree, ZenonT(30)
<1>11. ReadLoop(g, digits, scale, shift)
  BY <1>4, <1>5, <1>8, <1>10 DEF ReadLoop, n
<1> QED
  BY <1>11

LEMMA ReadEmpty ==
    \A scale \in {1, 26}, shift \in Nat : ReadAs(<<>>, scale, shift) = 0
<1> TAKE scale \in {1, 26}, shift \in Nat
<1>1. <<>> \in Seq(Nat) /\ Len(<<>>) = 0
  BY EmptySeq
<1>2. PICK g : ReadLoop(g, <<>>, scale, shift)
  BY <1>1, ReadIs
<1> QED
  BY <1>1, <1>2 DEF ReadLoop

LEMMA ReadAppend ==
    ASSUME NEW s \in Seq(Nat), NEW e \in Nat, NEW scale \in {1, 26}, NEW shift \in Nat
    PROVE  /\ ReadAs(s, scale, shift) \in Nat
           /\ ReadAs(Append(s, e), scale, shift) = scale * ReadAs(s, scale, shift) + e + shift
<1> DEFINE t == Append(s, e)
           n == Len(s)
<1>1. n \in Nat /\ t \in Seq(Nat) /\ Len(t) = n + 1 /\ t[n + 1] = e /\ \A k \in 1..n : t[k] = s[k]
  BY AppendProperties, LenProperties
<1>2. PICK g : ReadLoop(g, s, scale, shift)
  BY ReadIs
<1>3. PICK h : ReadLoop(h, t, scale, shift)
  <2> HIDE DEF t
  <2> QED
    BY <1>1, ReadIs
<1> HIDE DEF t
<1>4. /\ g[0] = 0 /\ \A k \in 1..n : g[k] = scale * g[k - 1] + s[k] + shift
      /\ ReadAs(s, scale, shift) = g[n] /\ g \in [0..n -> Nat]
  BY <1>2 DEF ReadLoop
<1>5. /\ h[0] = 0 /\ \A k \in 1..(n + 1) : h[k] = scale * h[k - 1] + t[k] + shift
      /\ ReadAs(t, scale, shift) = h[n + 1]
  BY <1>1, <1>3 DEF ReadLoop
<1> HIDE DEF n
<1>6. g[n] = h[n]
  <2>1. ASSUME NEW k \in 1..n, g[k - 1] = h[k - 1] PROVE g[k] = h[k]
    <3>1. k \in 1..(n + 1) /\ t[k] = s[k]
      BY <1>1
    <3> QED
      BY <1>4, <1>5, <2>1, <3>1
  <2>2. g[0] = h[0]
    BY <1>4, <1>5
  <2> QED
    BY <1>1, <2>1, <2>2, StepsAgree
<1>7. n + 1 \in 1..(n + 1) /\ (n + 1) - 1 = n /\ n \in 0..n
  BY <1>1
<1>8. h[n + 1] = scale * h[n] + e + shift
  BY <1>1, <1>5, <1>7
<1> QED
  BY <1>4, <1>5, <1>6, <1>7, <1>8 DEF t

LEMMA ReadInFront ==
    ASSUME NEW v \in Nat
    PROVE  \A s \in Seq(Nat) : <<v>> \o s \in Seq(Nat) /\ ReadAs(<<v>> \o s, 1, 0) = v + ReadAs(s, 1, 0)
<1> DEFINE Fine == {s \in Seq(Nat) : <<v>> \o s \in Seq(Nat)
                                     /\ ReadAs(<<v>> \o s, 1, 0) = v + ReadAs(s, 1, 0)}
<1>0. <<v>> \in Seq(Nat) /\ <<>> \in Seq(Nat) /\ 0 \in Nat /\ 1 \in {1, 26}
  BY EmptySeq
<1>1. <<>> \in Fine
  <2>1. <<v>> \o <<>> = <<v>> /\ <<v>> = Append(<<>>, v)
    BY <1>0, ConcatEmptySeq
  <2>2. ReadAs(Append(<<>>, v), 1, 0) = 1 * ReadAs(<<>>, 1, 0) + v + 0
    <3>1. \A s \in Seq(Nat) : ReadAs(Append(s, v), 1, 0) = 1 * ReadAs(s, 1, 0) + v + 0
      BY <1>0, ReadAppend
    <3> QED
      BY <1>0, <3>1
  <2>3. ReadAs(<<>>, 1, 0) = 0
    BY <1>0, ReadEmpty
  <2>4. ReadAs(<<v>>, 1, 0) = v
    BY <2>1, <2>2, <2>3
  <2>5. ReadAs(<<v>> \o <<>>, 1, 0) = v + ReadAs(<<>>, 1, 0)
    BY <2>1, <2>3, <2>4
  <2> QED
    BY <1>0, <2>1, <2>5
<1>2. ASSUME NEW s \in Seq(Nat), NEW e \in Nat, s \in Fine PROVE Append(s, e) \in Fine
  <2> DEFINE t == <<v>> \o s
  <2>1. t \in Seq(Nat) /\ ReadAs(t, 1, 0) = v + ReadAs(s, 1, 0)
    BY <1>2
  <2>2. <<v>> \o Append(s, e) = Append(t, e)
    BY <1>0
  <2> HIDE DEF t
  <2>3. ReadAs(Append(t, e), 1, 0) = 1 * ReadAs(t, 1, 0) + e + 0 /\ Append(t, e) \in Seq(Nat)
    BY <1>0, <2>1, ReadAppend, AppendProperties
  <2>4. ReadAs(Append(s, e), 1, 0) = 1 * ReadAs(s, 1, 0) + e + 0 /\ Append(s, e) \in Seq(Nat)
        /\ ReadAs(s, 1, 0) \in Nat
    BY <1>0, ReadAppend, AppendProperties
  <2>5. ReadAs(Append(t, e), 1, 0) = v + ReadAs(Append(s, e), 1, 0)
    BY <2>1, <2>3, <2>4
  <2> QED
    BY <2>2, <2>3, <2>4, <2>5
<1> HIDE DEF Fine
<1>3. Seq(Nat) \subseteq Fine
  BY <1>1, <1>2, ListInduction
<1> QED
  BY <1>3 DEF Fine

-----------------------------------------------------------------------------
(* The digits of a number say it, in letters and in roman digits.          *)
AlphaMore(f, m) == Append(f[(m - 1) \div 26], (m - 1) % 26)
Lettered(f, n) ==
    f \in [0..n -> Seq(Nat)] /\ f = [m \in 0..n |-> IF m = 0 THEN <<>> ELSE AlphaMore(f, m)]

LEMMA Divided ==
    ASSUME NEW m \in Nat, m # 0
    PROVE  /\ (m - 1) \div 26 \in Nat /\ (m - 1) \div 26 < m /\ (m - 1) % 26 \in Nat
           /\ 26 * ((m - 1) \div 26) + ((m - 1) % 26) + 1 = m
OBVIOUS

LEMMA LettersExist ==
    ASSUME NEW n \in Nat
    PROVE  \E f : Lettered(f, n)
<1> DEFINE S == 0..n
           T == Seq(Nat)
           rank == [m \in S |-> n - m]
           turn == [f \in [S -> T] |-> [m \in S |-> IF m = 0 THEN <<>> ELSE AlphaMore(f, m)]]
<1>1. \A m \in S : m # 0 => /\ (m - 1) \div 26 \in S /\ (m - 1) \div 26 < m /\ (m - 1) % 26 \in Nat
  <2> TAKE m \in S
  <2>1. m \in Nat /\ m <= n
    OBVIOUS
  <2> HAVE m # 0
  <2>2. (m - 1) \div 26 \in Nat /\ (m - 1) \div 26 < m /\ (m - 1) % 26 \in Nat
    BY <2>1, Divided
  <2> QED
    BY <2>1, <2>2
<1>2. <<>> \in T
  BY EmptySeq
<1>3. ASSUME NEW f \in [S -> T], NEW m \in S, m # 0 PROVE AlphaMore(f, m) \in T
  <2>1. f[(m - 1) \div 26] \in Seq(Nat) /\ (m - 1) % 26 \in Nat
    BY <1>1, <1>3
  <2> QED
    BY <2>1, AppendProperties DEF AlphaMore
<1>4. rank \in [S -> 0..n]
  OBVIOUS
<1>5. \A x, y \in S : rank[y] > rank[x] <=> y < x
  OBVIOUS
<1> HIDE DEF rank, T
<1>6. turn \in [[S -> T] -> [S -> T]]
  BY <1>2, <1>3
<1>7. Local(S, T, rank, turn)
  <2> SUFFICES ASSUME NEW f \in [S -> T], NEW g \in [S -> T], NEW x \in S,
                      \A y \in S : rank[y] > rank[x] => f[y] = g[y]
               PROVE  turn[f][x] = turn[g][x]
    BY DEF Local
  <2>1. CASE x = 0
    BY <2>1
  <2>2. CASE x # 0
    <3>1. f[(x - 1) \div 26] = g[(x - 1) \div 26]
      BY <1>1, <1>5, <2>2
    <3> QED
      BY <2>2, <3>1 DEF AlphaMore
  <2> QED
    BY <2>1, <2>2
<1>8. Descends(S, T, n, rank, turn)
  <2> HIDE DEF turn, S
  <2> QED
    BY <1>2, <1>4, <1>6, <1>7 DEF Descends
<1>9. PICK f \in [S -> T] : f = turn[f]
  <2> HIDE DEF turn, S
  <2> QED
    BY <1>8, StructuralRecursion
<1>10. f = [m \in S |-> IF m = 0 THEN <<>> ELSE AlphaMore(f, m)]
  BY <1>9
<1> QED
  BY <1>9, <1>10 DEF Lettered, T

LEMMA LettersSay ==
    ASSUME NEW n \in Nat, NEW f, Lettered(f, n)
    PROVE  \A m \in 0..n : ReadAs(f[m], 26, 1) = m
<1> DEFINE S == 0..n
           Fine == {m \in S : ReadAs(f[m], 26, 1) = m}
           rank == [m \in S |-> n - m]
<1>1. rank \in [S -> 0..n] /\ \A x, y \in S : rank[y] > rank[x] <=> y < x
  OBVIOUS
<1> HIDE DEF rank
<1>2. ASSUME NEW m \in S, \A k \in S : rank[k] > rank[m] => k \in Fine
      PROVE  m \in Fine
  <2>0. m \in Nat /\ m <= n
    OBVIOUS
  <2>1. CASE m = 0
    <3>1. f[m] = <<>>
      BY <2>1 DEF Lettered
    <3>2. 26 \in {1, 26} /\ 1 \in Nat
      OBVIOUS
    <3>3. ReadAs(<<>>, 26, 1) = 0
      BY <3>2, ReadEmpty
    <3> QED
      BY <2>1, <3>1, <3>3
  <2>2. CASE m # 0
    <3> DEFINE q == (m - 1) \div 26
               r == (m - 1) % 26
    <3>1. q \in Nat /\ q < m /\ r \in Nat /\ 26 * q + r + 1 = m
      BY <2>0, <2>2, Divided
    <3>2. f[m] = Append(f[q], r)
      BY <2>2 DEF Lettered, AlphaMore
    <3> HIDE DEF q, r
    <3>3. q \in S
      BY <2>0, <3>1
    <3>4. ReadAs(f[q], 26, 1) = q /\ f[q] \in Seq(Nat)
      BY <1>1, <1>2, <3>1, <3>3 DEF Lettered
    <3>5. 26 \in {1, 26} /\ 1 \in Nat
      OBVIOUS
    <3>6. ReadAs(Append(f[q], r), 26, 1) = 26 * ReadAs(f[q], 26, 1) + r + 1
      BY <3>1, <3>4, <3>5, ReadAppend
    <3> QED
      BY <3>1, <3>2, <3>4, <3>6
  <2> QED
    BY <2>1, <2>2
<1> HIDE DEF Fine
<1>3. S \subseteq Fine
  <2> HIDE DEF S
  <2> QED
    BY <1>1, <1>2, RankInduction
<1> QED
  BY <1>3 DEF Fine

LEMMA AlphaSays ==
    ASSUME NEW n \in Nat
    PROVE  ReadAs(Alpha(n), 26, 1) = n
<1> DEFINE Is(f) == f = [m \in 0..n |-> IF m = 0 THEN <<>> ELSE AlphaMore(f, m)]
           out   == CHOOSE f : Is(f)
<1>1. PICK g : Lettered(g, n)
  BY LettersExist
<1>2. Is(g)
  BY <1>1 DEF Lettered
<1>3. Is(out)
  <2> HIDE DEF Is
  <2> QED
    BY <1>2
<1>4. PICK h : Is(h) /\ Alpha(n) = h[n]
  <2>1. Alpha(n) = out[n]
    BY DEF Alpha, AlphaMore
  <2> HIDE DEF Is, out
  <2> QED
    BY <1>3, <2>1
<1>5. ASSUME NEW m \in 0..n, \A k \in 0..n : k < m => h[k] = g[k] PROVE h[m] = g[m]
  <2>0. m \in Nat /\ m <= n
    OBVIOUS
  <2>1. CASE m = 0
    BY <1>2, <1>4, <2>1
  <2>2. CASE m # 0
    <3>1. (m - 1) \div 26 \in Nat /\ (m - 1) \div 26 < m
      BY <2>0, <2>2, Divided
    <3>2. (m - 1) \div 26 \in 0..n
      BY <2>0, <3>1
    <3>3. h[(m - 1) \div 26] = g[(m - 1) \div 26]
      BY <1>5, <3>1, <3>2
    <3>4. h[m] = AlphaMore(h, m) /\ g[m] = AlphaMore(g, m)
      BY <1>2, <1>4, <2>2
    <3> QED
      BY <3>3, <3>4 DEF AlphaMore
  <2> QED
    BY <2>1, <2>2
<1>6. h[n] = g[n]
  <2> DEFINE S == 0..n
             Fine == {m \in S : h[m] = g[m]}
             rank == [m \in S |-> n - m]
  <2>1. rank \in [S -> 0..n] /\ \A x, y \in S : rank[y] > rank[x] <=> y < x
    OBVIOUS
  <2> HIDE DEF rank
  <2>2. ASSUME NEW m \in S, \A k \in S : rank[k] > rank[m] => k \in Fine
        PROVE  m \in Fine
    BY <1>5, <2>1, <2>2
  <2> HIDE DEF Fine
  <2>3. S \subseteq Fine
    <3> HIDE DEF S
    <3> QED
      BY <2>1, <2>2, RankInduction
  <2>4. n \in S
    OBVIOUS
  <2> QED
    BY <2>3, <2>4 DEF Fine
<1>7. ReadAs(g[n], 26, 1) = n
  BY <1>1, LettersSay
<1> QED
  BY <1>4, <1>6, <1>7

LEMMA GreatestNatural ==
    ASSUME NEW n \in Nat, NEW T, T \subseteq 0..n, T # {}
    PROVE  Max(T) \in T /\ \A x \in T : Max(T) >= x
<1> DEFINE D == {n - x : x \in T}
<1>1. D \subseteq Nat /\ D # {}
  <2>1. \A x \in T : n - x \in Nat
    <3> TAKE x \in T
    <3>1. x \in 0..n
      OBVIOUS
    <3> QED
      BY <3>1
  <2> QED
    BY <2>1
<1>2. PICK d \in D : \A e \in D : d <= e
  <2> HIDE DEF D
  <2> QED
    BY <1>1, LeastNatural
<1>3. PICK m \in T : d = n - m
  OBVIOUS
<1>4. \A x \in T : m >= x
  <2> TAKE x \in T
  <2>1. n - x \in D /\ x \in 0..n /\ m \in 0..n
    OBVIOUS
  <2>2. d <= n - x
    BY <1>2, <2>1
  <2> QED
    BY <1>3, <2>1, <2>2
<1> QED
  BY <1>4 DEF Max

LEMMA MinOfTwo ==
    ASSUME NEW m \in Nat, NEW n \in Nat
    PROVE  Min({m, n}) = IF m <= n THEN m ELSE n
<1> DEFINE S == {m, n}
           x == IF m <= n THEN m ELSE n
<1>1. x \in S /\ \A y \in S : x <= y
  OBVIOUS
<1>2. \A z \in S : (\A y \in S : z <= y) => z = x
  OBVIOUS
<1> HIDE DEF x, S
<1>3. Min(S) = x
  BY <1>1, <1>2 DEF Min
<1> QED
  BY <1>3 DEF S, x

(* The greatest roman digit of a number.                                   *)
Digit(n) == Max({t \in Tokens : t <= n})
LEMMA DigitFits ==
    ASSUME NEW n \in Nat, n # 0
    PROVE  Digit(n) \in Nat /\ Digit(n) # 0 /\ Digit(n) <= n
<1> DEFINE T == {t \in Tokens : t <= n}
<1>1. \A t \in Tokens : t \in Nat /\ t # 0
  BY DEF Tokens
<1>2. 1 \in T
  BY DEF Tokens
<1>3. T \subseteq 0..n
  BY <1>1
<1> HIDE DEF T
<1>4. Max(T) \in T
  BY <1>2, <1>3, GreatestNatural
<1> QED
  BY <1>1, <1>4 DEF T, Digit

RomanUpTo(S, n) == S = 0..n
RomanMore(f, m) == <<Digit(m)>> \o f[m - Digit(m)]
Roman(f, S) ==
    f \in [S -> Seq(Nat)] /\ f = [m \in S |-> IF m = 0 THEN <<>> ELSE RomanMore(f, m)]

LEMMA RomanExist ==
    ASSUME NEW n \in Nat, NEW S, RomanUpTo(S, n)
    PROVE  \E f : Roman(f, S)
<1> DEFINE T == Seq(Nat)
           rank == [m \in S |-> n - m]
           turn == [f \in [S -> T] |-> [m \in S |-> IF m = 0 THEN <<>> ELSE RomanMore(f, m)]]
<1>1. \A m \in S : m # 0 => /\ Digit(m) \in Nat /\ m - Digit(m) \in S /\ m - Digit(m) < m
  <2> TAKE m \in S
  <2>1. m \in Nat /\ m <= n
    BY DEF RomanUpTo
  <2> HAVE m # 0
  <2>2. Digit(m) \in Nat /\ Digit(m) # 0 /\ Digit(m) <= m
    BY <2>1, DigitFits
  <2> QED
    BY <2>1, <2>2 DEF RomanUpTo
<1>2. <<>> \in T
  BY EmptySeq
<1>3. ASSUME NEW f \in [S -> T], NEW m \in S, m # 0 PROVE RomanMore(f, m) \in T
  <2>1. f[m - Digit(m)] \in Seq(Nat) /\ Digit(m) \in Nat
    BY <1>1, <1>3
  <2> QED
    BY <2>1, ReadInFront DEF RomanMore
<1>4. rank \in [S -> 0..n]
  BY DEF RomanUpTo
<1>5. \A x, y \in S : rank[y] > rank[x] <=> y < x
  BY DEF RomanUpTo
<1> HIDE DEF rank, T
<1>6. turn \in [[S -> T] -> [S -> T]]
  BY <1>2, <1>3
<1>7. Local(S, T, rank, turn)
  <2> SUFFICES ASSUME NEW f \in [S -> T], NEW g \in [S -> T], NEW x \in S,
                      \A y \in S : rank[y] > rank[x] => f[y] = g[y]
               PROVE  turn[f][x] = turn[g][x]
    BY DEF Local
  <2>1. CASE x = 0
    BY <2>1
  <2>2. CASE x # 0
    <3>1. f[x - Digit(x)] = g[x - Digit(x)]
      BY <1>1, <1>5, <2>2
    <3> QED
      BY <2>2, <3>1 DEF RomanMore
  <2> QED
    BY <2>1, <2>2
<1>8. Descends(S, T, n, rank, turn)
  <2> HIDE DEF turn
  <2> QED
    BY <1>2, <1>4, <1>6, <1>7 DEF Descends
<1>9. PICK f \in [S -> T] : f = turn[f]
  <2> HIDE DEF turn
  <2> QED
    BY <1>8, StructuralRecursion
<1>10. f = [m \in S |-> IF m = 0 THEN <<>> ELSE RomanMore(f, m)]
  BY <1>9
<1> QED
  BY <1>9, <1>10 DEF Roman, T

LEMMA RomanAlike ==
    ASSUME NEW n \in Nat, NEW S, RomanUpTo(S, n), NEW g, Roman(g, S), NEW h,
           h = [m \in S |-> IF m = 0 THEN <<>> ELSE RomanMore(h, m)]
    PROVE  \A m \in S : ReadAs(h[m], 1, 0) = m
<1> DEFINE rank == [m \in S |-> n - m]
           Fine == {m \in S : h[m] = g[m] /\ ReadAs(g[m], 1, 0) = m}
<1>1. rank \in [S -> 0..n] /\ \A x, y \in S : rank[y] > rank[x] <=> y < x
  BY DEF RomanUpTo
<1> HIDE DEF rank
<1>2. ASSUME NEW m \in S, \A k \in S : rank[k] > rank[m] => k \in Fine PROVE m \in Fine
  <2>0. m \in Nat /\ m <= n /\ S = 0..n
    BY DEF RomanUpTo
  <2>1. CASE m = 0
    <3>1. g[m] = <<>> /\ h[m] = <<>>
      BY <2>1 DEF Roman
    <3>2. 1 \in {1, 26} /\ 0 \in Nat
      OBVIOUS
    <3>3. ReadAs(<<>>, 1, 0) = 0
      BY <3>2, ReadEmpty
    <3> QED
      BY <2>1, <3>1, <3>3
  <2>2. CASE m # 0
    <3> DEFINE d == Digit(m)
    <3>1. d \in Nat /\ d # 0 /\ d <= m
      BY <2>0, <2>2, DigitFits
    <3>2. g[m] = <<d>> \o g[m - d] /\ h[m] = <<d>> \o h[m - d]
      <4>1. g[m] = RomanMore(g, m) /\ h[m] = RomanMore(h, m)
        BY <2>2 DEF Roman
      <4> QED
        BY <4>1 DEF RomanMore
    <3> HIDE DEF d
    <3>3. m - d \in S /\ m - d < m
      BY <2>0, <3>1
    <3>4. h[m - d] = g[m - d] /\ ReadAs(g[m - d], 1, 0) = m - d
      BY <1>1, <1>2, <3>3
    <3>5. g[m - d] \in Seq(Nat)
      BY <3>3 DEF Roman
    <3>6. ReadAs(<<d>> \o g[m - d], 1, 0) = d + ReadAs(g[m - d], 1, 0)
      BY <3>1, <3>5, ReadInFront
    <3>7. h[m] = g[m]
      BY <3>2, <3>4
    <3>8. ReadAs(g[m], 1, 0) = d + (m - d)
      BY <3>2, <3>4, <3>6
    <3>9. ReadAs(g[m], 1, 0) = m
      BY <2>0, <3>1, <3>8
    <3> QED
      BY <3>7, <3>9
  <2> QED
    BY <2>1, <2>2
<1> HIDE DEF Fine
<1>3. S \subseteq Fine
  BY <1>1, <1>2, RankInduction
<1> QED
  BY <1>3 DEF Fine

RomanNumbers == 0..3999
LEMMA RomanSays == \A m \in RomanNumbers : ReadAs(roman[m], 1, 0) = m
<1> DEFINE Is(f) == f = [m \in RomanNumbers |-> IF m = 0 THEN <<>> ELSE RomanMore(f, m)]
<1>1. roman = CHOOSE f : Is(f)
  BY DEF roman, RomanMore, Digit, RomanNumbers
<1>2. PICK n \in Nat : RomanUpTo(RomanNumbers, n)
  <2> DEFINE cap == 3999
  <2>1. cap \in Nat /\ RomanUpTo(RomanNumbers, cap)
    BY DEF RomanUpTo, RomanNumbers
  <2> HIDE DEF cap
  <2> QED
    BY <2>1
<1>3. PICK g : Roman(g, RomanNumbers)
  BY <1>2, RomanExist
<1>4. Is(g)
  BY <1>3 DEF Roman
<1>5. Is(roman)
  <2> HIDE DEF Is
  <2> QED
    BY <1>1, <1>4
<1> QED
  BY <1>2, <1>3, <1>5, RomanAlike

(* Whatever its style, a marker shows the number it was made for.          *)
LEMMA MarkerShows ==
    ASSUME NEW n \in Nat, NEW style
    PROVE  Shows([style |-> style, digits |-> FormatNumber(n, style)], n)
<1> DEFINE digits == FormatNumber(n, style)
           marker == [style |-> style, digits |-> digits]
           cap == 3999
           r == Min({n, cap})
<1>1. marker.style = style /\ marker.digits = digits
  OBVIOUS
<1> HIDE DEF marker
<1>2. ASSUME style = "alpha" PROVE Shows(marker, n)
  <2>1. digits = Alpha(n)
    BY <1>2 DEF FormatNumber
  <2>2. ReadAs(digits, 26, 1) = n
    BY <2>1, AlphaSays
  <2> HIDE DEF digits
  <2>3. Value(marker) = ReadAs(digits, 26, 1)
    BY <1>1, <1>2 DEF Value
  <2> QED
    BY <1>1, <1>2, <2>2, <2>3 DEF Shows
<1>3. ASSUME style = "roman" PROVE Shows(marker, n)
  <2>0. cap \in Nat /\ cap = 3999
    OBVIOUS
  <2>1. digits = roman[r]
    BY <1>3 DEF FormatNumber
  <2> HIDE DEF digits, cap
  <2>2. r = IF n <= cap THEN n ELSE cap
    BY <2>0, MinOfTwo
  <2>3. r \in Nat /\ r <= cap
    <3> HIDE DEF r
    <3> QED
      BY <2>0, <2>2
  <2> HIDE DEF r
  <2>5. r \in RomanNumbers
    BY <2>0, <2>3 DEF RomanNumbers
  <2>6. ReadAs(digits, 1, 0) = r
    BY <2>1, <2>5, RomanSays
  <2>4. Value(marker) = ReadAs(digits, 1, 0)
    BY <1>1, <1>3 DEF Value
  <2> QED
    BY <1>1, <1>3, <2>4, <2>6 DEF Shows, r, cap
<1>4. ASSUME style # "alpha", style # "roman" PROVE Shows(marker, n)
  <2>1. digits = <<n>>
    BY <1>4 DEF FormatNumber
  <2> HIDE DEF digits
  <2>2. Value(marker) = digits[1]
    BY <1>1, <1>4 DEF Value
  <2>3. digits[1] = n
    BY <2>1
  <2> QED
    BY <1>1, <1>4, <2>2, <2>3 DEF Shows
<1> QED
  BY <1>2, <1>3, <1>4 DEF marker

-----------------------------------------------------------------------------
(* The nodes a node lies in, and the outline an element belongs to.        *)
LEMMA PathIs ==
    ASSUME TreeIsFile
    PROVE  Path(0) = {} /\ \A i \in Nodes : Path(i) = {i} \cup Path(tree[i].parent)
<1> DEFINE n == Len(tree)
           S == 0..n
           T == SUBSET Nodes
           rank == [x \in S |-> n - x]
           up(x) == tree[x].parent
           more(f, x) == {x} \cup f[up(x)]
           turn  == [f \in [S -> T] |-> [x \in S |-> IF x = 0 THEN {} ELSE more(f, x)]]
           Is(f) == f = [x \in S |-> IF x = 0 THEN {} ELSE more(f, x)]
           out   == CHOOSE f : Is(f)
<1>1. n \in Nat /\ Nodes = 1..n /\ \A x \in Nodes : up(x) \in Nat /\ up(x) < x
  BY IdNumbers
<1>2. \A i : Path(i) = out[i]
  BY DEF Path
<1> HIDE DEF n, up
<1>3. \A x \in S : x # 0 => x \in Nodes /\ up(x) \in S
  <2> TAKE x \in S
  <2> HAVE x # 0
  <2>1. x \in Nodes /\ x \in Nat /\ x <= n
    BY <1>1
  <2>2. up(x) \in Nat /\ up(x) < x
    BY <1>1, <2>1
  <2> QED
    BY <1>1, <2>1, <2>2
<1>4. rank \in [S -> 0..n] /\ \A x, y \in S : rank[y] > rank[x] <=> y < x
  BY <1>1
<1> HIDE DEF rank
<1>5. \A f \in [S -> T], x \in S : x # 0 => more(f, x) \in T
  BY <1>3
<1>6. {} \in T
  OBVIOUS
<1>7. \A f, g \in [S -> T], x \in S : x # 0 /\ f[up(x)] = g[up(x)] => more(f, x) = more(g, x)
  OBVIOUS
<1> HIDE DEF T, more
<1>8. turn \in [[S -> T] -> [S -> T]]
  BY <1>5, <1>6
<1>9. Local(S, T, rank, turn)
  <2> SUFFICES ASSUME NEW f \in [S -> T], NEW g \in [S -> T], NEW x \in S,
                      \A y \in S : rank[y] > rank[x] => f[y] = g[y]
               PROVE  turn[f][x] = turn[g][x]
    BY DEF Local
  <2>1. CASE x = 0
    BY <2>1
  <2>2. CASE x # 0
    <3>1. x \in Nodes /\ up(x) \in S
      BY <1>3, <2>2
    <3>2. up(x) < x
      BY <1>1, <3>1
    <3>3. f[up(x)] = g[up(x)]
      BY <1>4, <3>1, <3>2
    <3>4. more(f, x) = more(g, x)
      BY <1>7, <2>2, <3>3
    <3> QED
      BY <2>2, <3>4
  <2> QED
    BY <2>1, <2>2
<1>10. Descends(S, T, n, rank, turn)
  <2> HIDE DEF turn, S
  <2> QED
    BY <1>1, <1>4, <1>6, <1>8, <1>9 DEF Descends
<1>11. PICK f \in [S -> T] : f = turn[f]
  <2> HIDE DEF turn, S
  <2> QED
    BY <1>10, StructuralRecursion
<1>12. Is(f)
  BY <1>11
<1>13. Is(out)
  <2> HIDE DEF Is
  <2> QED
    BY <1>12
<1> HIDE DEF out
<1>14. 0 \in S /\ \A i \in Nodes : i \in S /\ i # 0
  BY <1>1
<1>15. out[0] = {} /\ \A i \in Nodes : out[i] = more(out, i)
  BY <1>13, <1>14
<1> QED
  BY <1>2, <1>15 DEF more, up

LEMMA PathBelow ==
    ASSUME TreeIsFile
    PROVE  \A i \in 0..Len(tree) : Path(i) \subseteq 1..i
<1> DEFINE Bad == {i \in 0..Len(tree) : ~(Path(i) \subseteq 1..i)}
<1>0. Len(tree) \in Nat /\ Nodes = 1..Len(tree)
  BY IdNumbers
<1> SUFFICES ASSUME Bad # {} PROVE FALSE
  OBVIOUS
<1>1. PICK i \in Bad : \A j \in Bad : i <= j
  <2>1. Bad \subseteq Nat
    BY <1>0
  <2> HIDE DEF Bad
  <2> QED
    BY <2>1, LeastNatural
<1>2. i \in Nat /\ i <= Len(tree) /\ ~(Path(i) \subseteq 1..i)
  BY <1>0
<1>3. i # 0
  BY <1>2, PathIs
<1>4. i \in Nodes
  BY <1>0, <1>2, <1>3
<1> DEFINE p == tree[i].parent
<1>5. p \in Nat /\ p < i /\ Path(i) = {i} \cup Path(p)
  BY <1>4, IdNumbers, PathIs
<1> HIDE DEF p
<1>6. p \in 0..Len(tree) /\ p \notin Bad
  <2>1. p \in 0..Len(tree)
    BY <1>0, <1>2, <1>5
  <2>2. ~(i <= p)
    BY <1>2, <1>5
  <2> HIDE DEF Bad
  <2> QED
    BY <1>1, <2>1, <2>2
<1>7. Path(p) \subseteq 1..p
  BY <1>6
<1> QED
  BY <1>2, <1>5, <1>7

Up(y)    == tree[Maker(y)].parent
Outer(y) == {x \in Path(Up(y)) : Kind(x) = "Outline"}
Home(y)  == IF Outer(y) = {} THEN 0 ELSE Max(Outer(y))

(* What is listed by an element was made for a node below its own, or is   *)
(* what a wrapper was made for.                                            *)
OfNode(x, y)    == x <= Len(tree) /\ Up(y) = x /\ Maker(y) > Maker(x) /\ Maker(x) = x
OfWrapper(x, y) == x > Len(tree) /\ Maker(y) = Maker(x) /\ y \in Range(contents[x])

LEMMA KidPlace ==
    ASSUME ConvInv, NEW x \in Ids, NEW y \in Kids(x)
    PROVE  /\ OfNode(x, y) \/ OfWrapper(x, y)
           /\ Maker(y) \in Nodes /\ Maker(y) \in kept /\ Maker(y) \in Nat /\ Maker(x) \in Nat
<1>1. TreeIsFile /\ Len(tree) \in Nat /\ Nodes = 1..Len(tree)
  BY IdNumbers DEF ConvInv
<1>2. y \in Ids /\ y > 0 /\ Maker(y) \in Nodes /\ Maker(y) \in kept
  BY OwnerFacts DEF Kids
<1>3. x \in Nat /\ y \in Nat /\ Maker(y) \in Nat
  BY <1>1, <1>2, RankFacts
<1>4. tree[Maker(y)].parent < Maker(y) /\ tree[Maker(y)].parent <= Len(tree)
  BY <1>1, <1>2, IdNumbers
<1>5. Maker(x) \in Nat
  BY <1>1, <1>3 DEF Maker
<1>6. CASE y \in Range(children[x])
  <2>1. ChildOf(x, y)
    BY <1>6 DEF ConvInv, ChildrenStand
  <2>2. x = Up(y)
    BY <2>1 DEF ChildOf, Up, Maker
  <2>3. x <= Len(tree) /\ x < Maker(y)
    BY <1>4, <2>2 DEF Up
  <2>4. Maker(x) = x
    BY <1>1, <1>3, <2>3 DEF Maker
  <2> QED
    BY <1>2, <1>3, <1>5, <2>2, <2>3, <2>4 DEF OfNode
<1>7. CASE y \in Range(contents[x])
  <2>1. ContentOf(x, y)
    BY <1>7 DEF ConvInv, ContentsStand
  <2>2. Maker(y) = y
    BY <1>1, <1>3, <2>1 DEF ContentOf, Maker
  <2>3. CASE x = tree[y].parent
    <3>1. x = Up(y) /\ x <= Len(tree) /\ x < Maker(y)
      BY <1>4, <2>2, <2>3 DEF Up
    <3>2. Maker(x) = x
      BY <1>1, <1>3, <3>1 DEF Maker
    <3> QED
      BY <1>2, <1>3, <1>5, <3>1, <3>2 DEF OfNode
  <2>4. CASE x = Wrapper(y)
    <3>1. x > Len(tree) /\ x - Len(tree) = y
      BY <1>1, <1>2, <2>2, <2>4, IdNumbers
    <3>2. Maker(x) = y
      BY <3>1 DEF Maker
    <3> QED
      BY <1>2, <1>3, <1>5, <1>7, <2>2, <3>1, <3>2 DEF OfWrapper
  <2> QED
    BY <2>1, <2>3, <2>4 DEF ContentOf
<1> QED
  BY <1>6, <1>7 DEF Kids

LEMMA LowerLevels ==
    ASSUME ConvInv, NEW x \in Ids
    PROVE  /\ \A y \in Range(children[x]) : Maker(y) > Maker(x)
           /\ \A y \in Range(contents[x]) : Maker(y) >= Maker(x)
<1>1. \A y \in Kids(x) : /\ OfNode(x, y) \/ OfWrapper(x, y)
                         /\ Maker(y) \in Nat /\ Maker(x) \in Nat
  BY KidPlace
<1>2. Range(children[x]) \cap Range(contents[x]) = {}
  BY ListsApart
<1> QED
  BY <1>1, <1>2 DEF Kids, OfNode, OfWrapper

(* No outline holds a page.                                                *)
LEMMA PagesOutside ==
    ASSUME ConvInv
    PROVE  \A i \in 0..Len(tree) : i \in kept /\ Kind(i) \in PageKinds =>
             {x \in Path(i) : Kind(x) = "Outline"} = {}
<1> DEFINE Free(i) == {x \in Path(i) : Kind(x) = "Outline"} = {}
           Bad == {i \in 0..Len(tree) : i \in kept /\ Kind(i) \in PageKinds /\ ~Free(i)}
<1>0. TreeIsFile /\ Len(tree) \in Nat /\ Nodes = 1..Len(tree)
  BY IdNumbers DEF ConvInv
<1> SUFFICES ASSUME Bad # {} PROVE FALSE
  OBVIOUS
<1>1. PICK i \in Bad : \A j \in Bad : i <= j
  <2>1. Bad \subseteq Nat
    BY <1>0
  <2> HIDE DEF Bad
  <2> QED
    BY <2>1, LeastNatural
<1>2. i \in Nat /\ i <= Len(tree) /\ i \in kept /\ Kind(i) \in PageKinds /\ ~Free(i)
  BY <1>0
<1>3. i # 0
  <2>1. Path(0) = {}
    BY <1>0, PathIs
  <2> QED
    BY <1>2, <2>1
<1>4. i \in Nodes /\ Kind(i) = tree[i].kind
  BY <1>0, <1>2, <1>3 DEF Kind
<1> DEFINE p == tree[i].parent
<1>5. p \in Nat /\ p < i /\ Path(i) = {i} \cup Path(p)
  BY <1>0, <1>4, IdNumbers, PathIs
<1>6. p \in kept /\ tree[i].kind \in Takes(Kind(p))
  BY <1>2, <1>3 DEF ConvInv, Fitting
<1> HIDE DEF p
<1>7. Kind(p) \in {"Section", "PageSeries"}
  BY <1>2, <1>4, <1>6 DEF Takes, Containers, Elements, PageKinds
<1>8. Kind(i) # "Outline"
  BY <1>2 DEF PageKinds
<1>9. ~Free(p)
  BY <1>2, <1>5, <1>8
<1>10. p \in Bad /\ ~(i <= p)
  <2>1. p \in 0..Len(tree) /\ ~(i <= p)
    BY <1>0, <1>2, <1>5
  <2> HIDE DEF Free
  <2> QED
    BY <1>6, <1>7, <1>9, <2>1 DEF PageKinds
<1> HIDE DEF Bad
<1> QED
  BY <1>1, <1>10

HomeBelow(x, y) ==
    /\ Kind(x) = "Outline" => Home(y) = x
    /\ Kind(x) = "OutlineElement" => Home(y) = Home(x)
    /\ Kind(x) = "Page" => Home(y) = 0

LEMMA HomeFacts ==
    ASSUME ConvInv, NEW x \in Ids, NEW y \in Kids(x)
    PROVE  HomeBelow(x, y)
<1>1. TreeIsFile /\ Len(tree) \in Nat /\ Nodes = 1..Len(tree) /\ Ids = 0..(2 * Len(tree))
  BY IdNumbers DEF ConvInv
<1>2. /\ OfNode(x, y) \/ OfWrapper(x, y)
      /\ Maker(y) \in Nodes /\ Maker(y) \in kept /\ Maker(y) \in Nat /\ Maker(x) \in Nat
  BY KidPlace
<1>3. ASSUME OfWrapper(x, y) PROVE HomeBelow(x, y)
  <2>1. Kind(x) = "OutlineElement"
    BY <1>1, <1>3 DEF OfWrapper, Kind
  <2>2. Home(y) = Home(x)
    BY <1>3 DEF OfWrapper, Home, Outer, Up
  <2> QED
    BY <2>1, <2>2 DEF HomeBelow
<1>4. ASSUME OfNode(x, y) PROVE HomeBelow(x, y)
  <2>1. x \in Nat /\ x <= Len(tree) /\ Outer(y) = {z \in Path(x) : Kind(z) = "Outline"}
    BY <1>1, <1>4, RankFacts DEF OfNode, Outer
  <2>2. x \in 0..Len(tree)
    BY <1>1, <2>1
  <2>3. Path(x) \subseteq 1..x
    BY <1>1, <2>2, PathBelow
  <2>4. x # 0 => x \in Nodes /\ Path(x) = {x} \cup Path(Up(x))
    <3>1. x # 0 => x \in Nodes
      BY <1>1, <2>1
    <3> QED
      BY <1>1, <1>4, <3>1, PathIs DEF OfNode, Up
  <2>5. ASSUME Kind(x) = "Outline" PROVE Home(y) = x
    <3>1. x # 0
      BY <2>5 DEF Kind
    <3> DEFINE S == Outer(y)
    <3>2. x \in S /\ S \subseteq 0..x
      BY <2>1, <2>3, <2>4, <2>5, <3>1
    <3>3. Home(y) = Max(S)
      BY <3>2 DEF Home
    <3> HIDE DEF S
    <3>4. Max(S) \in S /\ \A z \in S : Max(S) >= z
      BY <2>1, <3>2, GreatestNatural
    <3>5. Max(S) \in 0..x /\ Max(S) >= x
      BY <3>2, <3>4
    <3> QED
      BY <2>1, <3>3, <3>5
  <2>6. ASSUME Kind(x) = "OutlineElement" PROVE Home(y) = Home(x)
    <3>1. x # 0
      BY <2>6 DEF Kind
    <3>2. Outer(y) = Outer(x)
      BY <2>1, <2>4, <2>6, <3>1 DEF Outer
    <3> QED
      BY <3>2 DEF Home
  <2>7. ASSUME Kind(x) = "Page" PROVE Home(y) = 0
    <3>1. x \in kept
      <4>1. x = tree[Maker(y)].parent
        BY <1>4 DEF OfNode, Up
      <4>2. Maker(y) # 0
        BY <1>1, <1>2
      <4> QED
        BY <1>2, <4>1, <4>2 DEF ConvInv
    <3>2. Outer(y) = {}
      BY <2>1, <2>2, <2>7, <3>1, PagesOutside DEF PageKinds
    <3> QED
      BY <3>2 DEF Home
  <2> QED
    BY <2>5, <2>6, <2>7 DEF HomeBelow
<1> QED
  BY <1>2, <1>3, <1>4

LEMMA HomeIsOutline ==
    ASSUME ConvInv, NEW y \in Ids, Kind(y) = "OutlineElement", Home(y) # 0
    PROVE  OutlineOf(y) = Home(y)
<1>1. TreeIsFile /\ Len(tree) \in Nat /\ Nodes = 1..Len(tree) /\ Ids = 0..(2 * Len(tree))
  BY IdNumbers DEF ConvInv
<1>2. y \in Nat /\ y # 0
  BY <1>1, RankFacts DEF Kind
<1>3. Home(y) = Max(Outer(y))
  BY DEF Home
<1>4. CASE y > Len(tree)
  <2>1. Maker(y) = y - Len(tree)
    BY <1>4 DEF Maker
  <2> QED
    BY <1>3, <1>4, <2>1 DEF OutlineOf, Outer, Up
<1>5. CASE ~(y > Len(tree))
  <2>1. y \in Nodes /\ Maker(y) = y
    BY <1>1, <1>2, <1>5 DEF Maker
  <2>2. Path(y) = {y} \cup Path(Up(y))
    BY <1>1, <2>1, PathIs DEF Up
  <2>3. Outer(y) = {x \in Path(y) : Kind(x) = "Outline"}
    BY <2>2 DEF Outer
  <2> QED
    BY <1>3, <1>5, <2>3 DEF OutlineOf
<1> QED
  BY <1>4, <1>5

-----------------------------------------------------------------------------
(* The marks that count for the next number of an outline and level: those *)
(* with a number since the last one that ends them.                        *)
EndsLevel(m, o, l) ==
    OutlineOf(m.id) = o /\ (m.level < l \/ (m.level = l /\ Item(m.id) = NoFormat))
OnLevel(m, o, l) == OutlineOf(m.id) = o /\ m.level = l /\ Item(m.id).numbered
EndersAt(ms, k, o, l) == {j \in 1..k : EndsLevel(ms[j], o, l)}
ChainAt(ms, k, o, l) == {j \in 1..k : OnLevel(ms[j], o, l) /\ \A e \in EndersAt(ms, k, o, l) : e < j}

CellHolds(cell, ms, o, l) ==
    LET chain == ChainAt(ms, Len(ms), o, l)
        last  == ms[Max(chain)]
    IN  IF chain = {} THEN cell = Unused
        ELSE cell.count \in Nat /\ cell.key = Item(last.id).key /\ Shows(last.marker, cell.count)
ListHolds(list, ms, o) ==
    /\ list = [level \in Levels |-> list[level]]
    /\ \A level \in Levels : CellHolds(list[level], ms, o, level)

CountsOn(ms, k, item, marker, restart, chain) ==
    LET last == ms[Max(chain)] IN
    /\ marker.style = item.style
    /\ IF restart # NoRestart THEN Shows(marker, restart)
       ELSE IF chain = {} \/ Item(last.id).key # item.key THEN Shows(marker, 1)
       ELSE last.marker.style = marker.style => Shows(marker, Value(last.marker) + 1)
Counted(ms, k) ==
    Item(ms[k].id).numbered =>
        CountsOn(ms, k, Item(ms[k].id), ms[k].marker, Restart(ms[k].id),
                 ChainAt(ms, k - 1, OutlineOf(ms[k].id), ms[k].level))

LongerBy(mt, ms, m) ==
    /\ IsList(mt) /\ Len(ms) \in Nat /\ Len(mt) = Len(ms) + 1 /\ mt[Len(mt)] = m
    /\ \A j \in 1..Len(ms) : mt[j] = ms[j]

LEMMA ListLonger ==
    ASSUME NEW ms, IsList(ms), NEW m
    PROVE  LongerBy(Append(ms, m), ms, m) /\ DOMAIN Append(ms, m) = 1..(Len(ms) + 1)
<1>1. PICK S : ms \in Seq(S)
  BY DEF IsList
<1> DEFINE B == S \cup {m}
<1>2. S \subseteq B /\ m \in B
  OBVIOUS
<1> HIDE DEF B
<1>3. ms \in Seq(B)
  BY <1>1, <1>2, WiderList
<1>4. /\ Append(ms, m) \in Seq(B) /\ Len(Append(ms, m)) = Len(ms) + 1 /\ Append(ms, m)[Len(ms) + 1] = m
      /\ \A j \in 1..Len(ms) : Append(ms, m)[j] = ms[j]
  BY <1>2, <1>3, AppendProperties
<1>5. Len(ms) \in Nat /\ DOMAIN Append(ms, m) = 1..Len(Append(ms, m))
  BY <1>3, <1>4, LenProperties
<1> QED
  BY <1>4, <1>5 DEF LongerBy, IsList

LEMMA ChainAgrees ==
    ASSUME NEW ms, NEW mt, NEW k, \A j \in 1..k : mt[j] = ms[j], NEW o, NEW l
    PROVE  EndersAt(mt, k, o, l) = EndersAt(ms, k, o, l) /\ ChainAt(mt, k, o, l) = ChainAt(ms, k, o, l)
<1>1. EndersAt(mt, k, o, l) = EndersAt(ms, k, o, l)
  BY DEF EndersAt
<1> QED
  BY <1>1 DEF ChainAt

(* What a mark does to the marks that count.                               *)
LEMMA ChainNext ==
    ASSUME NEW ms, NEW m, NEW mt, LongerBy(mt, ms, m), NEW o, NEW l
    PROVE  LET n == Len(ms)
               chain == ChainAt(mt, n + 1, o, l)
               old   == ChainAt(ms, n, o, l)
           IN  /\ EndsLevel(m, o, l) => chain = {}
               /\ ~EndsLevel(m, o, l) /\ ~OnLevel(m, o, l) => chain = old
               /\ ~EndsLevel(m, o, l) /\ OnLevel(m, o, l) => chain = old \cup {n + 1}
               /\ old \subseteq 0..n
<1> DEFINE n == Len(ms)
           e1 == EndersAt(mt, n + 1, o, l)
           e0 == EndersAt(ms, n, o, l)
           chain == ChainAt(mt, n + 1, o, l)
           old   == ChainAt(ms, n, o, l)
<1>1. n \in Nat /\ mt[n + 1] = m /\ \A j \in 1..n : mt[j] = ms[j]
  BY DEF LongerBy
<1>2. e0 = {j \in 1..n : EndsLevel(ms[j], o, l)} /\ e1 = {j \in 1..(n + 1) : EndsLevel(mt[j], o, l)}
  BY DEF EndersAt
<1>3. /\ chain = {j \in 1..(n + 1) : OnLevel(mt[j], o, l) /\ \A e \in e1 : e < j}
      /\ old = {j \in 1..n : OnLevel(ms[j], o, l) /\ \A e \in e0 : e < j}
  BY DEF ChainAt
<1>4. 1..(n + 1) = (1..n) \cup {n + 1} /\ \A j \in 1..n : j \in Nat /\ j < n + 1
  BY <1>1
<1> HIDE DEF n, e0, e1, chain, old
<1>5. ASSUME EndsLevel(m, o, l) PROVE chain = {}
  <2>1. n + 1 \in e1
    BY <1>1, <1>2, <1>4, <1>5
  <2>2. \A j \in 1..(n + 1) : ~(n + 1 < j)
    BY <1>1
  <2> QED
    BY <1>3, <2>1, <2>2
<1>6. ASSUME ~EndsLevel(m, o, l) PROVE e1 = e0
  BY <1>1, <1>2, <1>4, <1>6
<1>7. ASSUME ~EndsLevel(m, o, l), ~OnLevel(m, o, l) PROVE chain = old
  BY <1>1, <1>3, <1>4, <1>6, <1>7
<1>8. ASSUME ~EndsLevel(m, o, l), OnLevel(m, o, l) PROVE chain = old \cup {n + 1}
  <2>1. \A e \in e0 : e < n + 1
    BY <1>2, <1>4
  <2> QED
    BY <1>1, <1>3, <1>4, <1>6, <1>8, <2>1
<1>9. old \subseteq 0..n
  BY <1>1, <1>3
<1> QED
  BY <1>5, <1>7, <1>8, <1>9 DEF n, chain, old

LEMMA ChainFacts ==
    ASSUME NEW ms, NEW n \in Nat, NEW o, NEW l, ChainAt(ms, n, o, l) # {}
    PROVE  /\ Max(ChainAt(ms, n, o, l)) \in ChainAt(ms, n, o, l)
           /\ Max(ChainAt(ms, n, o, l)) \in 1..n
<1> DEFINE chain == ChainAt(ms, n, o, l)
<1>1. chain \subseteq 1..n
  BY DEF ChainAt
<1>2. chain \subseteq 0..n
  BY <1>1
<1> HIDE DEF chain
<1>3. chain # {}
  BY DEF chain
<1>4. Max(chain) \in chain
  BY <1>2, <1>3, GreatestNatural
<1> QED
  BY <1>1, <1>4 DEF chain

LEMMA TopOfChain ==
    ASSUME NEW n \in Nat, NEW old, old \subseteq 0..n
    PROVE  Max(old \cup {n + 1}) = n + 1
<1> DEFINE T == old \cup {n + 1}
<1>1. T # {} /\ n + 1 \in T /\ n + 1 \in Nat
  OBVIOUS
<1>2. T \subseteq 0..(n + 1)
  OBVIOUS
<1> HIDE DEF T
<1>3. Max(T) \in T /\ \A x \in T : Max(T) >= x
  BY <1>1, <1>2, GreatestNatural
<1>4. Max(T) \in 0..(n + 1) /\ Max(T) >= n + 1
  BY <1>1, <1>2, <1>3
<1> QED
  BY <1>4 DEF T

(* What a mark does to the cells of a list that holds.                     *)
LEMMA CellEnds ==
    ASSUME NEW ms, NEW m, NEW mt, LongerBy(mt, ms, m), NEW o, NEW l, EndsLevel(m, o, l)
    PROVE  CellHolds(Unused, mt, o, l)
<1>1. Len(mt) = Len(ms) + 1
  BY DEF LongerBy
<1>2. ChainAt(mt, Len(ms) + 1, o, l) = {}
  BY ChainNext
<1> QED
  BY <1>1, <1>2 DEF CellHolds

LEMMA CellStays ==
    ASSUME NEW ms, NEW m, NEW mt, LongerBy(mt, ms, m), NEW o, NEW l,
           ~EndsLevel(m, o, l), ~OnLevel(m, o, l), NEW cell, CellHolds(cell, ms, o, l)
    PROVE  CellHolds(cell, mt, o, l)
<1> DEFINE n == Len(ms)
           old == ChainAt(ms, n, o, l)
<1>1. n \in Nat /\ Len(mt) = n + 1 /\ \A j \in 1..n : mt[j] = ms[j]
  BY DEF LongerBy
<1>2. ChainAt(mt, n + 1, o, l) = old
  BY ChainNext
<1>3. old # {} => mt[Max(old)] = ms[Max(old)]
  BY <1>1, ChainFacts
<1>4. ChainAt(mt, Len(mt), o, l) = old
  BY <1>1, <1>2
<1> HIDE DEF old, n
<1>5. ChainAt(ms, Len(ms), o, l) = old
  BY DEF old, n
<1> QED
  BY <1>3, <1>4, <1>5 DEF CellHolds

LEMMA CellCounts ==
    ASSUME NEW ms, NEW m, NEW mt, LongerBy(mt, ms, m), NEW o, NEW l,
           ~EndsLevel(m, o, l), OnLevel(m, o, l), NEW c \in Nat, Shows(m.marker, c)
    PROVE  CellHolds([count |-> c, key |-> Item(m.id).key], mt, o, l)
<1> DEFINE n == Len(ms)
           old == ChainAt(ms, n, o, l)
           chain == ChainAt(mt, Len(mt), o, l)
<1>1. n \in Nat /\ Len(mt) = n + 1 /\ mt[n + 1] = m
  BY DEF LongerBy
<1>2. chain = old \cup {n + 1} /\ old \subseteq 0..n
  BY <1>1, ChainNext
<1> HIDE DEF old, n, chain
<1>3. Max(chain) = n + 1 /\ chain # {}
  BY <1>1, <1>2, TopOfChain
<1> QED
  BY <1>1, <1>3 DEF CellHolds, chain

MarkOf(list, elem, level) == [id |-> elem, level |-> level, marker |-> Marker(list, elem, level)]

LEMMA RestartValues ==
    ASSUME ConvInv, NEW x \in Ids, Kind(x) = "OutlineElement"
    PROVE  (Restart(x) \in Nat \/ Restart(x) = NoRestart) /\ NoRestart \notin Nat
<1>1. TreeIsFile /\ Len(tree) \in Nat /\ Ids = 0..(2 * Len(tree)) /\ Nodes = 1..Len(tree)
  BY IdNumbers DEF ConvInv
<1>2. NoRestart = -1 /\ NoRestart \notin Nat
  BY DEF NoRestart
<1>3. CASE x > Len(tree)
  BY <1>2, <1>3 DEF Restart
<1>4. CASE ~(x > Len(tree))
  <2>1. x # 0
    BY DEF Kind
  <2>2. x \in Nodes
    BY <1>1, <1>4, <2>1
  <2>3. tree[x] \in TreeNode
    BY <1>1, <2>2, IdNumbers
  <2>4. tree[x].restart \in Nat \cup {-1}
    BY <2>3 DEF TreeNode
  <2> QED
    BY <1>2, <1>4, <2>4 DEF Restart
<1> QED
  BY <1>2, <1>3, <1>4

LEMMA CountIs ==
    ASSUME NEW list, NEW elem, NEW level, NEW ms, NEW o,
           Restart(elem) \in Nat \/ Restart(elem) = NoRestart, NoRestart \notin Nat,
           CellHolds(list[level], ms, o, level)
    PROVE  /\ Count(list, elem, level) \in Nat
           /\ Restart(elem) # NoRestart => Count(list, elem, level) = Restart(elem)
<1>1. list[level].count \in Nat
  <2>1. Unused.count = 0
    BY DEF Unused
  <2> QED
    BY <2>1 DEF CellHolds
<1> QED
  BY <1>1 DEF Count

(* The marker of a numbered item follows the last number that counts.      *)
LEMMA CountFollows ==
    ASSUME NEW list, NEW elem, NEW level, NEW ms, IsList(ms), NEW o,
           Restart(elem) \in Nat \/ Restart(elem) = NoRestart, NoRestart \notin Nat,
           CellHolds(list[level], ms, o, level), Item(elem).numbered
    PROVE  CountsOn(ms, Len(ms), Item(elem), Marker(list, elem, level), Restart(elem),
                    ChainAt(ms, Len(ms), o, level))
<1> DEFINE n == Count(list, elem, level)
           marker == Marker(list, elem, level)
           chain == ChainAt(ms, Len(ms), o, level)
           last == ms[Max(chain)]
           cell == list[level]
           item == Item(elem)
<1>1. n \in Nat /\ (Restart(elem) # NoRestart => n = Restart(elem))
  BY CountIs
<1>2. Shows(marker, n)
  <2>1. item # NoFormat
    <3>1. ~NoFormat.numbered
      BY DEF NoFormat
    <3> QED
      BY <3>1
  <2>2. marker = [style |-> item.style, digits |-> FormatNumber(n, item.style)]
    BY <2>1 DEF Marker
  <2> DEFINE style == item.style
  <2> HIDE DEF n, style
  <2>3. n \in Nat
    BY <1>1
  <2>4. Shows([style |-> style, digits |-> FormatNumber(n, style)], n)
    BY <2>3, MarkerShows
  <2> QED
    BY <2>2, <2>4 DEF style
<1>12. marker.style = item.style
  <2>1. item # NoFormat
    <3>1. ~NoFormat.numbered
      BY DEF NoFormat
    <3> QED
      BY <3>1
  <2> QED
    BY <2>1 DEF Marker
<1>3. Restart(elem) = NoRestart => n = IF cell.key = item.key THEN cell.count + 1 ELSE 1
  BY DEF Count
<1>4. IF chain = {} THEN cell = Unused
      ELSE cell.count \in Nat /\ cell.key = Item(last.id).key /\ Shows(last.marker, cell.count)
  BY DEF CellHolds
<1>5. Unused.count = 0
  BY DEF Unused
<1> DEFINE r == Restart(elem)
           k == cell.count
           key == Item(last.id).key
<1>6. /\ r = NoRestart /\ chain = {} => n = 1
      /\ r = NoRestart /\ chain # {} => n = IF key = item.key THEN k + 1 ELSE 1
      /\ chain # {} => k \in Nat /\ Shows(last.marker, k)
  BY <1>3, <1>4, <1>5
<1> HIDE DEF n, marker, chain, item, last, cell, r, k, key
<1>7. ASSUME r = NoRestart, chain # {}, key = item.key, last.marker.style = marker.style
      PROVE  Shows(marker, Value(last.marker) + 1)
  <2>1. k \in Nat /\ n = k + 1 /\ Shows(last.marker, k)
    BY <1>6, <1>7
  <2> DEFINE cap == 3999
             v == Value(last.marker)
  <2>2. cap \in Nat /\ cap = 3999
    OBVIOUS
  <2> HIDE DEF cap
  <2>3. /\ Min({k, cap}) = IF k <= cap THEN k ELSE cap
        /\ Min({n, cap}) = IF n <= cap THEN n ELSE cap
    BY <1>1, <2>1, <2>2, MinOfTwo
  <2>4. /\ v = IF last.marker.style = "roman" THEN Min({k, cap}) ELSE k
        /\ Value(marker) = IF marker.style = "roman" THEN Min({n, cap}) ELSE n
    BY <1>2, <2>1, <2>2 DEF Shows
  <2> HIDE DEF v
  <2>5. v + 1 \in Nat
    BY <2>1, <2>2, <2>3, <2>4
  <2>6. Min({v + 1, cap}) = IF v + 1 <= cap THEN v + 1 ELSE cap
    BY <2>2, <2>5, MinOfTwo
  <2>7. Value(marker) = IF marker.style = "roman" THEN Min({v + 1, cap}) ELSE v + 1
    <3>1. CASE marker.style = "roman"
      BY <1>7, <2>1, <2>2, <2>3, <2>4, <2>6, <3>1
    <3>2. CASE marker.style # "roman"
      BY <1>7, <2>1, <2>4, <3>2
    <3> QED
      BY <3>1, <3>2
  <2> QED
    BY <2>2, <2>7 DEF Shows, v
<1> DEFINE rest == IF r # NoRestart THEN Shows(marker, r)
                   ELSE IF chain = {} \/ key # item.key THEN Shows(marker, 1)
                   ELSE last.marker.style = marker.style => Shows(marker, Value(last.marker) + 1)
           goal == marker.style = item.style /\ rest
<1>8. ASSUME r # NoRestart PROVE rest
  <2>1. Shows(marker, r)
    BY <1>1, <1>2, <1>8 DEF r
  <2> QED
    BY <1>8, <2>1
<1>9. ASSUME r = NoRestart, chain = {} \/ key # item.key PROVE rest
  <2>1. n = 1
    BY <1>6, <1>9
  <2>2. Shows(marker, 1)
    BY <1>2, <2>1
  <2> QED
    BY <1>9, <2>2
<1>10. ASSUME r = NoRestart, chain # {}, key = item.key PROVE rest
  BY <1>7, <1>10
<1>11. rest
  BY <1>8, <1>9, <1>10
<1> QED
  BY <1>11, <1>12 DEF goal, rest, CountsOn, r, chain, key, item, last, marker


LEMMA ListNext ==
    ASSUME ConvInv, NEW elem \in Ids, Kind(elem) = "OutlineElement", NEW level \in Levels,
           NEW list, NEW ms, IsList(ms), ListHolds(list, ms, OutlineOf(elem)),
           NEW mt, LongerBy(mt, ms, MarkOf(list, elem, level))
    PROVE  /\ ListHolds(NextList(list, elem, level), mt, OutlineOf(elem))
           /\ Counted(mt, Len(mt))
<1> DEFINE o == OutlineOf(elem)
           m == MarkOf(list, elem, level)
           item == Item(elem)
           n == Count(list, elem, level)
           next == NextList(list, elem, level)
<1>1. Restart(elem) \in Nat \/ Restart(elem) = NoRestart
  BY RestartValues
<1>2. NoRestart \notin Nat
  BY RestartValues
<1>3. /\ list = [l \in Levels |-> list[l]]
      /\ \A l \in Levels : CellHolds(list[l], ms, o, l)
  BY DEF ListHolds
<1>4. n \in Nat
  BY <1>1, <1>2, <1>3, CountIs
<1>5. m.id = elem /\ m.level = level /\ m.marker = Marker(list, elem, level)
  BY DEF MarkOf
<1>6. ~NoFormat.numbered
  BY DEF NoFormat
<1>7. /\ \A l : EndsLevel(m, o, l) <=> level < l \/ (level = l /\ item = NoFormat)
      /\ \A l : OnLevel(m, o, l) <=> level = l /\ item.numbered
  BY <1>5 DEF EndsLevel, OnLevel
<1>8. level \in Nat /\ \A l \in Levels : l \in Nat
  <2>1. Len(tree) \in Nat
    BY IdNumbers DEF ConvInv
  <2> QED
    BY <2>1 DEF Levels
<1>9. LongerBy(mt, ms, m)
  OBVIOUS
<1>10. item.numbered => Shows(m.marker, n)
  <2> HAVE item.numbered
  <2>1. item # NoFormat
    BY <1>6
  <2>2. m.marker = [style |-> item.style, digits |-> FormatNumber(n, item.style)]
    BY <1>5, <2>1 DEF Marker
  <2> DEFINE style == item.style
  <2> HIDE DEF n, style, m
  <2>3. Shows([style |-> style, digits |-> FormatNumber(n, style)], n)
    BY <1>4, MarkerShows
  <2> QED
    BY <2>2, <2>3 DEF style
<1>11. /\ next = [l \in Levels |-> next[l]]
       /\ \A l \in Levels : next[l] =
            IF level < l \/ (level = l /\ item = NoFormat) THEN Unused
            ELSE IF level = l /\ item.numbered THEN [count |-> n, key |-> item.key]
            ELSE list[l]
  <2>1. CASE item = NoFormat
    <3>1. next = [l \in Levels |-> IF l >= level THEN Unused ELSE list[l]]
      BY <2>1 DEF NextList, ResetFrom
    <3> HIDE DEF next, n
    <3> QED
      BY <1>6, <1>8, <2>1, <3>1
  <2>2. CASE item # NoFormat /\ ~item.numbered
    <3>1. next = [l \in Levels |-> IF l >= level + 1 THEN Unused ELSE list[l]]
      BY <2>2 DEF NextList, ResetFrom
    <3> HIDE DEF next, n
    <3> QED
      BY <1>8, <2>2, <3>1
  <2>3. CASE item # NoFormat /\ item.numbered
    <3>1. next = [[l \in Levels |-> IF l >= level + 1 THEN Unused ELSE list[l]]
                    EXCEPT ![level] = [count |-> n, key |-> item.key]]
      BY <2>3 DEF NextList, ResetFrom
    <3> DEFINE cell == [count |-> n, key |-> item.key]
    <3> HIDE DEF next, n, cell, item
    <3>2. next = [l \in Levels |-> IF l = level THEN cell
                                  ELSE IF l >= level + 1 THEN Unused ELSE list[l]]
      BY <3>1 DEF cell
    <3>3. \A l \in Levels : l >= level + 1 <=> level < l
      BY <1>8
    <3> QED
      BY <1>8, <2>3, <3>2, <3>3 DEF cell
  <2> QED
    BY <2>1, <2>2, <2>3
<1>12. ASSUME NEW l \in Levels PROVE CellHolds(next[l], mt, o, l)
  <2>1. CASE EndsLevel(m, o, l)
    <3>1. next[l] = Unused
      BY <1>7, <1>11, <2>1
    <3> HIDE DEF m, o, next
    <3> QED
      BY <1>9, <2>1, <3>1, CellEnds
  <2>2. CASE ~EndsLevel(m, o, l) /\ ~OnLevel(m, o, l)
    <3>1. next[l] = list[l]
      BY <1>7, <1>11, <2>2
    <3> HIDE DEF m, o, next
    <3> QED
      BY <1>3, <1>9, <2>2, <3>1, CellStays
  <2>3. CASE ~EndsLevel(m, o, l) /\ OnLevel(m, o, l)
    <3>1. next[l] = [count |-> n, key |-> item.key] /\ item.numbered
      BY <1>7, <1>11, <2>3
    <3>2. Item(m.id).key = item.key
      BY <1>5
    <3> HIDE DEF m, o, next, n, item
    <3>3. Shows(m.marker, n)
      BY <1>10, <3>1
    <3>4. CellHolds([count |-> n, key |-> Item(m.id).key], mt, o, l)
      BY <1>4, <1>9, <2>3, <3>3, CellCounts
    <3> QED
      BY <3>1, <3>2, <3>4
  <2> QED
    BY <2>1, <2>2, <2>3
<1>13. ListHolds(next, mt, o)
  <2> HIDE DEF next, o
  <2> QED
    BY <1>11, <1>12 DEF ListHolds
<1>14. Counted(mt, Len(mt))
  <2> DEFINE k == Len(ms)
  <2>1. k \in Nat /\ Len(mt) = k + 1 /\ mt[k + 1] = m /\ \A j \in 1..k : mt[j] = ms[j]
    BY <1>9 DEF LongerBy
  <2>2. k + 1 - 1 = k
    BY <2>1
  <2> DEFINE chain == ChainAt(ms, k, o, level)
  <2>3. ChainAt(mt, k, o, level) = chain
    BY <2>1, ChainAgrees
  <2>4. chain # {} => mt[Max(chain)] = ms[Max(chain)]
    BY <2>1, ChainFacts
  <2>5. ASSUME item.numbered
        PROVE  CountsOn(ms, k, item, m.marker, Restart(elem), chain)
    BY <1>1, <1>2, <1>3, <1>5, <2>5, CountFollows
  <2>6. ASSUME item.numbered
        PROVE  CountsOn(mt, k, item, m.marker, Restart(elem), chain)
    <3> HIDE DEF item, m, chain, k
    <3> QED
      BY <2>4, <2>5, <2>6 DEF CountsOn
  <2>7. item.numbered => CountsOn(mt, Len(mt) - 1, item, m.marker, Restart(elem), ChainAt(mt, Len(mt) - 1, o, level))
    <3> HIDE DEF item, m, chain, k, o
    <3> QED
      BY <2>1, <2>2, <2>3, <2>6
  <2> HIDE DEF m, k, chain
  <2> QED
    BY <1>5, <2>1, <2>7 DEF Counted, CountsOn
<1> QED
  BY <1>13, <1>14

LEMMA OtherLists ==
    ASSUME NEW ms, NEW m, NEW mt, LongerBy(mt, ms, m), NEW o, OutlineOf(m.id) # o,
           NEW list, ListHolds(list, ms, o)
    PROVE  ListHolds(list, mt, o)
<1>1. \A l : ~EndsLevel(m, o, l) /\ ~OnLevel(m, o, l)
  BY DEF EndsLevel, OnLevel
<1>2. \A l \in Levels : CellHolds(list[l], ms, o, l)
  BY DEF ListHolds
<1>3. \A l \in Levels : CellHolds(list[l], mt, o, l)
  BY <1>1, <1>2, CellStays
<1> QED
  BY <1>3 DEF ListHolds

LEMMA NewListHolds ==
    ASSUME NEW ms, NEW o, \A j \in 1..Len(ms) : OutlineOf(ms[j].id) # o
    PROVE  ListHolds(NewList, ms, o)
<1>1. \A l : ChainAt(ms, Len(ms), o, l) = {}
  BY DEF ChainAt, OnLevel
<1>2. \A l : CellHolds(Unused, ms, o, l)
  BY <1>1 DEF CellHolds
<1>3. \A l \in Levels : NewList[l] = Unused
  BY DEF NewList
<1>4. NewList = [l \in Levels |-> NewList[l]]
  BY DEF NewList
<1> QED
  BY <1>2, <1>3, <1>4 DEF ListHolds

LEMMA EarlierCounts ==
    ASSUME NEW ms, NEW m, NEW mt, LongerBy(mt, ms, m), NEW k \in 1..Len(ms), Counted(ms, k)
    PROVE  Counted(mt, k)
<1> DEFINE o == OutlineOf(ms[k].id)
           l == ms[k].level
           chain == ChainAt(ms, k - 1, o, l)
           item == Item(ms[k].id)
           restart == Restart(ms[k].id)
<1>1. Len(ms) \in Nat /\ \A j \in 1..Len(ms) : mt[j] = ms[j]
  BY DEF LongerBy
<1>2. k - 1 \in Nat /\ mt[k] = ms[k] /\ \A j \in 1..(k - 1) : j \in 1..Len(ms) /\ mt[j] = ms[j]
  BY <1>1
<1>3. ChainAt(mt, k - 1, o, l) = chain
  BY <1>2, ChainAgrees
<1>4. chain # {} => mt[Max(chain)] = ms[Max(chain)]
  BY <1>2, ChainFacts
<1>5. item.numbered => CountsOn(ms, k - 1 + 1, item, ms[k].marker, restart, chain)
  BY <1>2 DEF Counted, CountsOn
<1>6. item.numbered => CountsOn(mt, k, item, mt[k].marker, restart, chain)
  <2> HIDE DEF item, chain, restart
  <2> QED
    BY <1>2, <1>4, <1>5 DEF CountsOn
<1>7. Item(mt[k].id) = item /\ Restart(mt[k].id) = restart /\ ChainAt(mt, k - 1, OutlineOf(mt[k].id), mt[k].level) = chain
  BY <1>2, <1>3
<1> HIDE DEF item, chain, restart
<1> QED
  BY <1>6, <1>7 DEF Counted

-----------------------------------------------------------------------------
(* The list state of a task: the innermost one, and one further out for    *)
(* every end of an outline in front of it.                                 *)
Spots(d, w, n) ==
    /\ d \in [1..(Len(w) + 1) -> 1..(n + 1)] /\ d[1] = 1 /\ d[Len(w) + 1] = n + 1
    /\ \A i \in 1..Len(w) : d[i + 1] = d[i] + IF w[i].id = 0 THEN 1 ELSE 0
    /\ \A i, j \in 1..(Len(w) + 1) : i <= j => d[i] <= d[j]

Replaced(u, v, w) ==
    /\ IsList(u) /\ IsList(v) /\ IsList(w) /\ w # <<>>
    /\ Len(v) \in Nat /\ Len(w) \in Nat \ {0} /\ Len(u) = Len(v) + Len(w) - 1
    /\ \A i \in 1..Len(v) : u[i] = v[i]
    /\ \A i \in 1..(Len(w) - 1) : u[Len(v) + i] = w[i + 1]

LEMMA ReplacedHead ==
    ASSUME NEW v, NEW w, IsList(v), IsList(w), w # <<>>
    PROVE  Replaced(v \o Tail(w), v, w) /\ Head(w) = w[1]
<1>1. /\ IsList(Tail(w)) /\ Len(w) \in Nat \ {0} /\ Len(Tail(w)) = Len(w) - 1 /\ Head(w) = w[1]
      /\ \A i \in 1..(Len(w) - 1) : Tail(w)[i] = w[i + 1]
  BY TailPlaces
<1> DEFINE t == Tail(w)
           u == v \o t
           m == Len(v)
           n == Len(w)
<1>2. IsList(u) /\ Follows(v, t) /\ Places(v)
  BY <1>1, ListFollows
<1>3. m \in Nat /\ Len(u) = m + Len(t)
      /\ \A i \in 1..(m + Len(t)) : u[i] = IF i <= m THEN v[i] ELSE t[i - m]
  BY <1>2 DEF Follows, Places
<1> HIDE DEF t, u, m, n
<1>4. n \in Nat \ {0} /\ Len(t) = n - 1 /\ \A i \in 1..(n - 1) : t[i] = w[i + 1]
  BY <1>1 DEF t, n
<1>5. \A i \in 1..m : u[i] = v[i]
  BY <1>3, <1>4
<1>6. ASSUME NEW i \in 1..(n - 1) PROVE u[m + i] = w[i + 1]
  <2>1. m + i \in 1..(m + Len(t)) /\ ~(m + i <= m) /\ (m + i) - m = i
    BY <1>3, <1>4
  <2> QED
    BY <1>3, <1>4, <2>1
<1> QED
  BY <1>1, <1>2, <1>3, <1>4, <1>5, <1>6 DEF Replaced, t, u, m, n

(* The head gives way to tasks v, whose last one ends an outline if b is 1.*)
SpotsOn(e, d, v, w, b) ==
    /\ \A i \in 1..Len(v) : e[i] = 1
    /\ \A i \in 1..(Len(w) - 1) : e[Len(v) + i] = d[i + 1] + b

LEMMA SpotsReplaced ==
    ASSUME NEW u, NEW v, NEW w, Replaced(u, v, w), w[1].id # 0,
           NEW d, NEW n \in Nat, Spots(d, w, n), NEW b \in {0, 1}, b = 1 => Len(v) > 0,
           \A i \in 1..Len(v) : v[i].id = 0 <=> b = 1 /\ i = Len(v)
    PROVE  \E e : Spots(e, u, n + b) /\ SpotsOn(e, d, v, w, b)
<1> DEFINE p == Len(v)
           q == Len(w)
           e == [i \in 1..(p + q) |-> IF i <= p THEN 1 ELSE d[i - p + 1] + b]
<1>1. /\ p \in Nat /\ q \in Nat /\ q > 0 /\ Len(u) = p + q - 1
      /\ \A i \in 1..p : u[i] = v[i]
      /\ \A i \in 1..(q - 1) : u[p + i] = w[i + 1]
  BY DEF Replaced
<1>2. /\ d \in [1..(q + 1) -> 1..(n + 1)] /\ d[1] = 1 /\ d[q + 1] = n + 1
      /\ \A i \in 1..q : d[i + 1] = d[i] + IF w[i].id = 0 THEN 1 ELSE 0
      /\ \A i, j \in 1..(q + 1) : i <= j => d[i] <= d[j]
  BY DEF Spots
<1>3. (b = 1 => p > 0) /\ \A i \in 1..p : v[i].id = 0 <=> b = 1 /\ i = p
  OBVIOUS
<1> HIDE DEF p, q
<1>4. d[2] = 1
  BY <1>1, <1>2
<1>5. \A i \in 1..(p + q) : e[i] = IF i <= p THEN 1 ELSE d[i - p + 1] + b
  OBVIOUS
<1>6. \A i \in 1..(q + 1) : d[i] \in 1..(n + 1) /\ d[i] \in Nat
  BY <1>2
<1>7. e \in [1..(p + q) -> 1..(n + b + 1)]
  <2> SUFFICES ASSUME NEW i \in 1..(p + q) PROVE (IF i <= p THEN 1 ELSE d[i - p + 1] + b) \in 1..(n + b + 1)
    OBVIOUS
  <2>1. CASE i <= p
    BY <2>1
  <2>2. CASE ~(i <= p)
    <3>1. i - p + 1 \in 1..(q + 1)
      BY <1>1, <2>2
    <3>2. d[i - p + 1] \in 1..(n + 1)
      BY <1>6, <3>1
    <3> QED
      BY <2>2, <3>2
  <2> QED
    BY <2>1, <2>2
<1> HIDE DEF e
<1>8. e[1] = 1
  <2>1. CASE p > 0
    BY <1>1, <1>5, <2>1
  <2>2. CASE ~(p > 0)
    <3>1. p = 0 /\ b = 0 /\ 1 \in 1..(p + q) /\ ~(1 <= p) /\ 1 - p + 1 = 2
      BY <1>1, <1>3, <2>2
    <3> QED
      BY <1>4, <1>5, <3>1
  <2> QED
    BY <2>1, <2>2
<1>9. e[p + q] = n + b + 1
  <2>1. p + q \in 1..(p + q) /\ ~(p + q <= p) /\ (p + q) - p + 1 = q + 1
    BY <1>1
  <2> QED
    BY <1>2, <1>5, <2>1
<1>10. ASSUME NEW i \in 1..(p + q - 1) PROVE e[i + 1] = e[i] + IF u[i].id = 0 THEN 1 ELSE 0
  <2>1. i \in 1..(p + q) /\ i + 1 \in 1..(p + q)
    BY <1>1
  <2>2. CASE i < p
    <3>1. e[i] = 1 /\ e[i + 1] = 1
      BY <1>1, <1>5, <2>1, <2>2
    <3>2. u[i].id # 0
      BY <1>1, <1>3, <2>2
    <3> QED
      BY <3>1, <3>2
  <2>3. CASE i = p
    <3>1. e[i] = 1
      BY <1>1, <1>5, <2>1, <2>3
    <3>2. e[i + 1] = 1 + b
      <4>1. ~(i + 1 <= p) /\ (i + 1) - p + 1 = 2
        BY <1>1, <2>3
      <4> QED
        BY <1>4, <1>5, <2>1, <4>1
    <3>3. u[i].id = 0 <=> b = 1
      BY <1>1, <1>3, <2>1, <2>3
    <3> QED
      BY <3>1, <3>2, <3>3
  <2>4. CASE i > p
    <3> DEFINE j == i - p + 1
    <3>1. j \in 1..q /\ i - p \in 1..(q - 1) /\ p + (i - p) = i
      BY <1>1, <2>4
    <3>2. u[i] = w[j]
      BY <1>1, <3>1
    <3>3. e[i] = d[j] + b
      BY <1>1, <1>5, <2>1, <2>4
    <3>4. e[i + 1] = d[j + 1] + b
      <4>1. ~(i + 1 <= p) /\ (i + 1) - p + 1 = j + 1
        BY <1>1, <2>4
      <4> QED
        BY <1>5, <2>1, <4>1
    <3> HIDE DEF j
    <3>5. d[j] \in Nat /\ d[j + 1] = d[j] + IF w[j].id = 0 THEN 1 ELSE 0
      BY <1>1, <1>2, <1>6, <3>1
    <3> QED
      BY <3>2, <3>3, <3>4, <3>5
  <2> QED
    BY <1>1, <2>2, <2>3, <2>4
<1>11. ASSUME NEW i \in 1..(p + q), NEW j \in 1..(p + q), i <= j PROVE e[i] <= e[j]
  <2>1. CASE i <= p
    <3>1. e[i] = 1 /\ e[j] \in 1..(n + b + 1)
      BY <1>5, <1>7, <2>1
    <3> QED
      BY <3>1
  <2>2. CASE ~(i <= p)
    <3>1. i - p + 1 \in 1..(q + 1) /\ j - p + 1 \in 1..(q + 1) /\ i - p + 1 <= j - p + 1 /\ ~(j <= p)
      BY <1>1, <1>11, <2>2
    <3>2. d[i - p + 1] <= d[j - p + 1] /\ d[i - p + 1] \in Nat /\ d[j - p + 1] \in Nat
      BY <1>2, <1>6, <3>1
    <3>3. e[i] = d[i - p + 1] + b /\ e[j] = d[j - p + 1] + b
      BY <1>5, <2>2, <3>1
    <3> QED
      BY <3>2, <3>3
  <2> QED
    BY <2>1, <2>2
<1>12. Len(u) + 1 = p + q
  BY <1>1
<1>13. Spots(e, u, n + b)
  BY <1>1, <1>7, <1>8, <1>9, <1>10, <1>11, <1>12 DEF Spots
<1>14. ASSUME NEW i \in 1..(q - 1) PROVE e[p + i] = d[i + 1] + b
  <2>1. p + i \in 1..(p + q) /\ ~(p + i <= p) /\ (p + i) - p + 1 = i + 1
    BY <1>1
  <2> QED
    BY <1>5, <2>1
<1>15. \A i \in 1..p : e[i] = 1
  BY <1>1, <1>5
<1>16. SpotsOn(e, d, v, w, b)
  BY <1>14, <1>15 DEF SpotsOn, p, q
<1> QED
  BY <1>13, <1>16

LEMMA SpotsEnd ==
    ASSUME NEW u, NEW w, Replaced(u, <<>>, w), w[1].id = 0, NEW d, NEW n \in Nat, Spots(d, w, n)
    PROVE  n > 0 /\ \E e : Spots(e, u, n - 1) /\ SpotsOn(e, d, <<>>, w, -1)
<1> DEFINE q == Len(w)
           e == [i \in 1..q |-> d[i + 1] - 1]
<1>1. /\ q \in Nat /\ q > 0 /\ Len(u) = q - 1 /\ Len(<<>>) = 0
      /\ \A i \in 1..(q - 1) : u[i] = w[i + 1]
  <2>1. Len(<<>>) = 0 /\ \A i \in 1..(q - 1) : 0 + i = i
    OBVIOUS
  <2> QED
    BY <2>1 DEF Replaced
<1>2. /\ d \in [1..(q + 1) -> 1..(n + 1)] /\ d[1] = 1 /\ d[q + 1] = n + 1
      /\ \A i \in 1..q : d[i + 1] = d[i] + IF w[i].id = 0 THEN 1 ELSE 0
      /\ \A i, j \in 1..(q + 1) : i <= j => d[i] <= d[j]
  BY DEF Spots
<1> HIDE DEF q
<1>3. d[2] = 2
  BY <1>1, <1>2
<1>4. \A i \in 1..q : d[i + 1] \in Nat /\ d[i + 1] <= n + 1 /\ 2 <= d[i + 1]
  <2> TAKE i \in 1..q
  <2>1. i + 1 \in 1..(q + 1) /\ 2 \in 1..(q + 1) /\ 2 <= i + 1
    BY <1>1
  <2> QED
    BY <1>2, <1>3, <2>1
<1>5. n > 0
  <2>1. q \in 1..q
    BY <1>1
  <2>2. 2 <= d[q + 1]
    BY <1>4, <2>1
  <2> QED
    BY <1>2, <2>2
<1>6. e \in [1..q -> 1..(n - 1 + 1)] /\ \A i \in 1..q : e[i] = d[i + 1] - 1
  BY <1>4, <1>5
<1> HIDE DEF e
<1>7. e[1] = 1 /\ e[q] = n - 1 + 1
  BY <1>1, <1>2, <1>3, <1>6
<1>8. ASSUME NEW i \in 1..(q - 1) PROVE e[i + 1] = e[i] + IF u[i].id = 0 THEN 1 ELSE 0
  <2>1. i \in 1..q /\ i + 1 \in 1..q
    BY <1>1
  <2>2. d[i + 1 + 1] = d[i + 1] + IF w[i + 1].id = 0 THEN 1 ELSE 0
    BY <1>2, <2>1
  <2>3. u[i] = w[i + 1] /\ d[i + 1] \in Nat
    BY <1>1, <1>4, <2>1
  <2>4. e[i] = d[i + 1] - 1 /\ e[i + 1] = d[i + 1 + 1] - 1
    BY <1>6, <2>1
  <2> QED
    BY <2>2, <2>3, <2>4
<1>9. ASSUME NEW i \in 1..q, NEW j \in 1..q, i <= j PROVE e[i] <= e[j]
  <2>1. i + 1 \in 1..(q + 1) /\ j + 1 \in 1..(q + 1) /\ i + 1 <= j + 1
    BY <1>1, <1>9
  <2>2. d[i + 1] <= d[j + 1] /\ d[i + 1] \in Nat /\ d[j + 1] \in Nat
    BY <1>2, <1>4, <2>1
  <2> QED
    BY <1>6, <2>2
<1>10. Len(u) + 1 = q
  BY <1>1
<1>11. Spots(e, u, n - 1)
  BY <1>1, <1>6, <1>7, <1>8, <1>9, <1>10 DEF Spots
<1>12. \A i \in 1..(q - 1) : e[0 + i] = d[i + 1] + -1
  <2> TAKE i \in 1..(q - 1)
  <2>1. i \in 1..q /\ 0 + i = i /\ d[i + 1] \in Nat
    BY <1>1, <1>4
  <2>2. e[i] = d[i + 1] - 1
    BY <1>6, <2>1
  <2> QED
    BY <2>1, <2>2
<1>13. SpotsOn(e, d, <<>>, w, -1)
  BY <1>1, <1>12 DEF SpotsOn, q
<1> QED
  BY <1>5, <1>11, <1>13

-----------------------------------------------------------------------------
(* The outlines of the list states h, innermost first; 0 is outside of all.*)
Homes(h, n) ==
    /\ h \in [1..(n + 1) -> Nat] /\ h[n + 1] = 0 /\ \A k \in 1..n : h[k] # 0
    /\ \A k, l \in 1..(n + 1) : h[k] = h[l] => k = l
Placed(t, home) == t.id # 0 => Home(t.id) = home /\ t.level \in Nat /\ t.level <= Maker(t.id)
TasksPlaced(w, d, h) == \A i \in 1..Len(w) : Placed(w[i], h[d[i]])
ListsHold(ls, h, ms, w, c) ==
    \A k \in 1..Len(ls) : ListHolds(ls[k], ms, h[k]) /\ Past(h[k], w, c)
MarkCounts(m, w, c) ==
    m.id \in Ids /\ Kind(m.id) = "OutlineElement" /\ Home(m.id) # 0 /\ Past(Home(m.id), w, c)
MarksCount(ms, w, c) ==
    IsList(ms) /\ \A k \in 1..Len(ms) : MarkCounts(ms[k], w, c) /\ Counted(ms, k)

NumStands(d, h, w, c, ls, ms) ==
    /\ IsList(ls) /\ Spots(d, w, Len(ls)) /\ Homes(h, Len(ls))
    /\ TasksPlaced(w, d, h) /\ ListsHold(ls, h, ms, w, c) /\ MarksCount(ms, w, c)
NumGoes(w, c, ls, ms) == \E d, h : NumStands(d, h, w, c, ls, ms)

(* The head gives way to what it holds.                                    *)
LEMMA PastOpened ==
    ASSUME ConvInv, NEW w, NEW c, Stands(w, c), w # <<>>, Head(w).id # 0,
           NEW v, IsList(v), Inner(Head(w).id, v), NEW z, Past(z, w, c)
    PROVE  Past(z, v \o Tail(w), c)
<1>1. /\ Head(w) \in Range(w) /\ Head(w).id \in Ids /\ IsList(Tail(w)) /\ Range(Tail(w)) \subseteq Range(w)
  BY HeadStands
<1>2. Range(v \o Tail(w)) = Range(v) \cup Range(Tail(w))
  BY <1>1, ListConcat
<1>3. z \notin Under(Head(w).id)
  BY <1>1 DEF Past
<1>4. \A y \in Kids(Head(w).id) : Under(y) \subseteq Under(Head(w).id)
  BY <1>1, UnderFacts
<1>5. \A t \in Range(v) : t.id # 0 => z \notin Under(t.id)
  BY <1>3, <1>4 DEF Inner
<1> QED
  BY <1>1, <1>2, <1>5 DEF Past

LEMMA PastTail ==
    ASSUME NEW w, NEW c, IsList(w), w # <<>>, NEW z, Past(z, w, c)
    PROVE  Past(z, Tail(w), c)
BY ListTail DEF Past

PastFrom(w, c, u, b) == \A z : Past(z, w, c) => Past(z, u, b)

LEMMA MarksStay ==
    ASSUME NEW ms, NEW w, NEW c, MarksCount(ms, w, c), NEW u, NEW b, PastFrom(w, c, u, b)
    PROVE  MarksCount(ms, u, b)
BY DEF MarksCount, MarkCounts, PastFrom

LEMMA ListsStay ==
    ASSUME NEW ls, NEW h, NEW ms, NEW w, NEW c, ListsHold(ls, h, ms, w, c), NEW u, NEW b, PastFrom(w, c, u, b)
    PROVE  ListsHold(ls, h, ms, u, b)
BY DEF ListsHold, PastFrom

PlacedAt(v, home) == \A i \in 1..Len(v) : Placed(v[i], home)

(* An element gives way to its contents and children.                      *)
LEMMA NumOpened ==
    ASSUME NEW w, NEW c, NEW ls, NEW ms, NumGoes(w, c, ls, ms), IsList(w), w # <<>>, w[1].id # 0,
           NEW v, NEW u, Replaced(u, v, w), \A i \in 1..Len(v) : v[i].id # 0,
           PlacedAt(v, Home(w[1].id)), PastFrom(w, c, u, c)
    PROVE  NumGoes(u, c, ls, ms)
<1>1. PICK d, h : NumStands(d, h, w, c, ls, ms)
  BY DEF NumGoes
<1> DEFINE n == Len(ls)
<1>2. IsList(ls) /\ Spots(d, w, n) /\ Homes(h, n) /\ TasksPlaced(w, d, h)
  BY <1>1 DEF NumStands
<1>3. n \in Nat
  BY <1>2, ListPlaces DEF Places
<1>4. PICK e : Spots(e, u, n + 0) /\ SpotsOn(e, d, v, w, 0)
  <2> HIDE DEF n
  <2> QED
    BY <1>2, <1>3, SpotsReplaced
<1>5. Spots(e, u, n)
  BY <1>3, <1>4
<1> HIDE DEF n
<1>6. d[1] = 1 /\ \A i \in 1..(Len(w) + 1) : d[i] \in Nat
  BY <1>2, <1>3 DEF Spots
<1>7. Len(v) \in Nat /\ Len(w) \in Nat \ {0} /\ Len(u) = Len(v) + Len(w) - 1
      /\ (\A i \in 1..Len(v) : u[i] = v[i])
      /\ \A i \in 1..(Len(w) - 1) : u[Len(v) + i] = w[i + 1]
  BY DEF Replaced
<1>8. Home(w[1].id) = h[1]
  <2>1. 1 \in 1..Len(w)
    BY <1>7
  <2> QED
    BY <1>2, <1>6, <2>1 DEF TasksPlaced, Placed
<1>9. ASSUME NEW i \in 1..Len(u) PROVE Placed(u[i], h[e[i]])
  <2>1. CASE i <= Len(v)
    <3>1. i \in 1..Len(v)
      BY <1>7, <2>1
    <3>2. u[i] = v[i] /\ e[i] = 1 /\ Placed(v[i], h[1])
      BY <1>4, <1>7, <1>8, <3>1 DEF SpotsOn, PlacedAt
    <3> QED
      BY <3>2
  <2>2. CASE ~(i <= Len(v))
    <3> DEFINE j == i - Len(v)
    <3>1. j \in 1..(Len(w) - 1) /\ i = Len(v) + j /\ j + 1 \in 1..Len(w) /\ j + 1 \in 1..(Len(w) + 1)
      BY <1>7, <2>2
    <3> HIDE DEF j
    <3>2. u[i] = w[j + 1] /\ e[i] = d[j + 1] + 0 /\ Placed(w[j + 1], h[d[j + 1]])
      BY <1>2, <1>4, <1>7, <3>1 DEF SpotsOn, TasksPlaced
    <3>3. e[i] = d[j + 1]
      BY <1>6, <3>1, <3>2
    <3> QED
      BY <3>2, <3>3
  <2> QED
    BY <2>1, <2>2
<1>10. TasksPlaced(u, e, h)
  BY <1>9 DEF TasksPlaced
<1>11. ListsHold(ls, h, ms, u, c) /\ MarksCount(ms, u, c)
  BY <1>1, MarksStay, ListsStay DEF NumStands
<1>12. NumStands(e, h, u, c, ls, ms)
  BY <1>2, <1>5, <1>10, <1>11 DEF NumStands, n
<1> QED
  BY <1>12 DEF NumGoes

(* The end of an outline.                                                  *)
LEMMA NumEnded ==
    ASSUME NEW w, NEW c, NEW ls, NEW ms, NumGoes(w, c, ls, ms), IsList(w), w # <<>>, w[1].id = 0,
           NEW u, Replaced(u, <<>>, w), PastFrom(w, c, u, c)
    PROVE  NumGoes(u, c, Tail(ls), ms)
<1>1. PICK d, h : NumStands(d, h, w, c, ls, ms)
  BY DEF NumGoes
<1> DEFINE n == Len(ls)
<1>2. IsList(ls) /\ Spots(d, w, n) /\ Homes(h, n) /\ TasksPlaced(w, d, h)
  BY <1>1 DEF NumStands
<1>3. n \in Nat
  BY <1>2, ListPlaces DEF Places
<1>4. n > 0 /\ \E e : Spots(e, u, n - 1) /\ SpotsOn(e, d, <<>>, w, -1)
  <2> HIDE DEF n
  <2> QED
    BY <1>2, <1>3, SpotsEnd
<1>5. PICK e : Spots(e, u, n - 1) /\ SpotsOn(e, d, <<>>, w, -1)
  BY <1>4
<1>6. ls # <<>>
  BY <1>4
<1>7. /\ IsList(Tail(ls)) /\ Len(Tail(ls)) = n - 1
      /\ \A i \in 1..(n - 1) : Tail(ls)[i] = ls[i + 1]
  BY <1>2, <1>6, TailPlaces
<1> HIDE DEF n
<1> DEFINE g == [k \in 1..n |-> h[k + 1]]
<1>8. Homes(g, n - 1)
  <2>1. /\ h \in [1..(n + 1) -> Nat] /\ h[n + 1] = 0 /\ \A k \in 1..n : h[k] # 0
        /\ \A k, l \in 1..(n + 1) : h[k] = h[l] => k = l
    BY <1>2 DEF Homes
  <2>2. g \in [1..n -> Nat] /\ \A k \in 1..n : g[k] = h[k + 1] /\ k + 1 \in 1..(n + 1)
    BY <1>3, <2>1
  <2> HIDE DEF g
  <2>3. n - 1 + 1 = n /\ n \in 1..n /\ \A k \in 1..(n - 1) : k \in 1..n /\ k + 1 \in 1..n
    BY <1>3, <1>4
  <2>4. \A k \in 1..(n - 1) : g[k] # 0
    BY <2>1, <2>2, <2>3
  <2>5. \A k, l \in 1..n : g[k] = g[l] => k = l
    <3> TAKE k, l \in 1..n
    <3> HAVE g[k] = g[l]
    <3>1. k + 1 = l + 1
      BY <2>1, <2>2
    <3> QED
      BY <3>1
  <2> QED
    BY <2>1, <2>2, <2>3, <2>4, <2>5 DEF Homes
<1>9. \A k \in 1..n : g[k] = h[k + 1]
  OBVIOUS
<1> HIDE DEF g
<1>10. /\ Len(w) \in Nat \ {0} /\ Len(u) = Len(w) - 1
       /\ \A i \in 1..(Len(w) - 1) : u[i] = w[i + 1]
  <2>1. Len(<<>>) = 0 /\ \A i \in 1..(Len(w) - 1) : 0 + i = i
    OBVIOUS
  <2> QED
    BY <2>1 DEF Replaced
<1>11. \A i \in 1..(Len(w) - 1) : e[i] = d[i + 1] + -1
  <2>1. Len(<<>>) = 0 /\ \A i \in 1..(Len(w) - 1) : 0 + i = i
    OBVIOUS
  <2> QED
    BY <1>5, <2>1 DEF SpotsOn
<1>12. ASSUME NEW i \in 1..Len(u) PROVE Placed(u[i], g[e[i]])
  <2>1. i \in 1..(Len(w) - 1) /\ i + 1 \in 1..Len(w) /\ i + 1 \in 1..(Len(w) + 1)
    BY <1>10
  <2>2. u[i] = w[i + 1] /\ Placed(w[i + 1], h[d[i + 1]])
    BY <1>2, <1>10, <2>1 DEF TasksPlaced
  <2>3. d[i + 1] \in 1..(n + 1) /\ e[i] \in 1..n
    <3>1. d[i + 1] \in 1..(n + 1)
      BY <1>2, <2>1 DEF Spots
    <3>2. Len(u) \in Nat /\ i \in 1..(Len(u) + 1)
      BY <1>10
    <3>3. e[i] \in 1..(n - 1 + 1)
      BY <1>5, <3>2 DEF Spots
    <3> QED
      BY <1>3, <3>1, <3>3
  <2>4. e[i] + 1 = d[i + 1]
    BY <1>3, <1>11, <2>1, <2>3
  <2>5. g[e[i]] = h[d[i + 1]]
    BY <1>9, <2>3, <2>4
  <2> QED
    BY <2>2, <2>5
<1>13. TasksPlaced(u, e, g)
  BY <1>12 DEF TasksPlaced
<1>14. ListsHold(ls, h, ms, u, c) /\ MarksCount(ms, u, c)
  BY <1>1, MarksStay, ListsStay DEF NumStands
<1>15. ListsHold(Tail(ls), g, ms, u, c)
  <2> SUFFICES ASSUME NEW k \in 1..(n - 1)
               PROVE  ListHolds(Tail(ls)[k], ms, g[k]) /\ Past(g[k], u, c)
    BY <1>7 DEF ListsHold
  <2>1. k + 1 \in 1..n /\ k \in 1..n
    BY <1>3
  <2>2. Tail(ls)[k] = ls[k + 1] /\ g[k] = h[k + 1]
    BY <1>7, <1>9, <2>1
  <2> QED
    BY <1>14, <2>1, <2>2 DEF ListsHold, n
<1>16. NumStands(e, g, u, c, Tail(ls), ms)
  BY <1>5, <1>7, <1>8, <1>13, <1>14, <1>15 DEF NumStands
<1> QED
  BY <1>16 DEF NumGoes

InFront(t, e, s) ==
    /\ IsList(t) /\ Len(s) \in Nat /\ Len(t) = Len(s) + 1 /\ t[1] = e
    /\ \A k \in 1..Len(s) : t[k + 1] = s[k]

LEMMA ListInFront ==
    ASSUME NEW e, NEW s, IsList(s)
    PROVE  InFront(<<e>> \o s, e, s)
<1> DEFINE o == <<e>>
           t == o \o s
           n == Len(s)
<1>1. IsList(o) /\ Len(o) = 1 /\ o[1] = e
  BY ListSmall
<1> HIDE DEF o
<1>2. IsList(t) /\ Follows(o, s) /\ Places(s)
  BY <1>1, ListFollows
<1>3. n \in Nat /\ Len(t) = 1 + n /\ \A i \in 1..(1 + n) : t[i] = IF i <= 1 THEN o[i] ELSE s[i - 1]
  BY <1>1, <1>2 DEF Follows, Places
<1> HIDE DEF t, n
<1>4. t[1] = e
  BY <1>1, <1>3
<1>5. \A k \in 1..n : t[k + 1] = s[k]
  <2> TAKE k \in 1..n
  <2>1. k + 1 \in 1..(1 + n) /\ ~(k + 1 <= 1) /\ (k + 1) - 1 = k
    BY <1>3
  <2> QED
    BY <1>3, <2>1
<1> QED
  BY <1>2, <1>3, <1>4, <1>5 DEF InFront, t, o, n

LEMMA MarksHome ==
    ASSUME ConvInv, NEW ms, NEW w, NEW c, MarksCount(ms, w, c), NEW j \in 1..Len(ms)
    PROVE  OutlineOf(ms[j].id) = Home(ms[j].id) /\ Past(Home(ms[j].id), w, c)
BY HomeIsOutline DEF MarksCount, MarkCounts

(* An outline comes: it has a list state of its own.                       *)
LEMMA NumOutline ==
    ASSUME ConvInv, NEW w, NEW c, NEW ls, NEW ms, NumGoes(w, c, ls, ms), IsList(w), w # <<>>,
           NEW x \in Nat \ {0}, w[1].id = x, ~Past(x, w, c),
           NEW v, NEW u, Replaced(u, v, w), Len(v) > 0, \A i \in 1..Len(v) : v[i].id = 0 <=> i = Len(v),
           PlacedAt(v, x), PastFrom(w, c, u, c), Past(x, u, c)
    PROVE  NumGoes(u, c, <<NewList>> \o ls, ms)
<1>1. PICK d, h : NumStands(d, h, w, c, ls, ms)
  BY DEF NumGoes
<1> DEFINE n == Len(ls)
           ls2 == <<NewList>> \o ls
           g == [k \in 1..(n + 2) |-> IF k = 1 THEN x ELSE h[k - 1]]
<1>2. IsList(ls) /\ Spots(d, w, n) /\ Homes(h, n) /\ TasksPlaced(w, d, h)
      /\ ListsHold(ls, h, ms, w, c) /\ MarksCount(ms, w, c)
  BY <1>1 DEF NumStands
<1>3. InFront(ls2, NewList, ls)
  BY <1>2, ListInFront
<1>4. n \in Nat /\ IsList(ls2) /\ Len(ls2) = n + 1 /\ ls2[1] = NewList /\ \A k \in 1..n : ls2[k + 1] = ls[k]
  BY <1>3 DEF InFront
<1>5. PICK e : Spots(e, u, n + 1) /\ SpotsOn(e, d, v, w, 1)
  <2> HIDE DEF n
  <2>1. \A i \in 1..Len(v) : v[i].id = 0 <=> 1 = 1 /\ i = Len(v)
    OBVIOUS
  <2> QED
    BY <1>2, <1>4, <2>1, SpotsReplaced
<1> HIDE DEF ls2
<1>6. \A k \in 1..n : h[k] # x
  <2> TAKE k \in 1..n
  <2>1. Past(h[k], w, c)
    BY <1>2 DEF ListsHold
  <2> QED
    BY <2>1
<1> HIDE DEF n
<1>7. /\ h \in [1..(n + 1) -> Nat] /\ h[n + 1] = 0 /\ \A k \in 1..n : h[k] # 0
      /\ \A k, l \in 1..(n + 1) : h[k] = h[l] => k = l
  BY <1>2 DEF Homes
<1>8. /\ g \in [1..(n + 2) -> Nat] /\ g[1] = x
      /\ \A k \in 1..(n + 1) : k + 1 \in 1..(n + 2) /\ g[k + 1] = h[k] /\ h[k] # x
  <2>1. \A k \in 1..(n + 2) : k # 1 => k - 1 \in 1..(n + 1)
    BY <1>4
  <2>2. g \in [1..(n + 2) -> Nat] /\ \A k \in 1..(n + 2) : g[k] = IF k = 1 THEN x ELSE h[k - 1]
    BY <1>7, <2>1
  <2> HIDE DEF g
  <2>3. 1 \in 1..(n + 2) /\ \A k \in 1..(n + 1) : k + 1 \in 1..(n + 2) /\ k + 1 # 1 /\ (k + 1) - 1 = k
    BY <1>4
  <2>4. \A k \in 1..(n + 1) : h[k] # x
    <3> TAKE k \in 1..(n + 1)
    <3>1. k \in 1..n \/ k = n + 1
      BY <1>4
    <3> QED
      BY <1>6, <1>7, <3>1
  <2> QED
    BY <2>2, <2>3, <2>4
<1> HIDE DEF g
<1>9. Homes(g, n + 1)
  <2>1. n + 1 + 1 = n + 2 /\ n + 1 \in 1..(n + 1)
    BY <1>4
  <2>2. g[n + 2] = 0
    BY <1>7, <1>8, <2>1
  <2>3. \A k \in 1..(n + 2) : k = 1 \/ \E j \in 1..(n + 1) : k = j + 1
    <3> TAKE k \in 1..(n + 2)
    <3>1. k = 1 \/ (k - 1 \in 1..(n + 1) /\ k = (k - 1) + 1)
      BY <1>4
    <3> QED
      BY <3>1
  <2>4. \A k \in 1..(n + 1) : g[k] # 0
    <3> TAKE k \in 1..(n + 1)
    <3>1. k = 1 \/ (k - 1 \in 1..n /\ k - 1 \in 1..(n + 1) /\ k = (k - 1) + 1)
      BY <1>4
    <3> QED
      BY <1>7, <1>8, <3>1
  <2>5. ASSUME NEW k \in 1..(n + 2), NEW l \in 1..(n + 2), g[k] = g[l] PROVE k = l
    <3>1. CASE k = 1 /\ l = 1
      BY <3>1
    <3>2. CASE k = 1 /\ l # 1
      <4>1. PICK j \in 1..(n + 1) : l = j + 1
        BY <2>3, <3>2
      <4> QED
        BY <1>8, <2>5, <3>2, <4>1
    <3>3. CASE k # 1 /\ l = 1
      <4>1. PICK j \in 1..(n + 1) : k = j + 1
        BY <2>3, <3>3
      <4> QED
        BY <1>8, <2>5, <3>3, <4>1
    <3>4. CASE k # 1 /\ l # 1
      <4>1. PICK i \in 1..(n + 1) : k = i + 1
        BY <2>3, <3>4
      <4>2. PICK j \in 1..(n + 1) : l = j + 1
        BY <2>3, <3>4
      <4>3. h[i] = h[j]
        BY <1>8, <2>5, <4>1, <4>2
      <4>4. i = j
        BY <1>7, <4>3
      <4> QED
        BY <4>1, <4>2, <4>4
    <3> QED
      BY <3>1, <3>2, <3>3, <3>4
  <2> QED
    BY <1>8, <2>1, <2>2, <2>4, <2>5 DEF Homes
<1>10. Len(v) \in Nat /\ Len(w) \in Nat \ {0} /\ Len(u) = Len(v) + Len(w) - 1
       /\ (\A i \in 1..Len(v) : u[i] = v[i])
       /\ \A i \in 1..(Len(w) - 1) : u[Len(v) + i] = w[i + 1]
  BY DEF Replaced
<1>11. ASSUME NEW i \in 1..Len(u) PROVE Placed(u[i], g[e[i]])
  <2>1. CASE i <= Len(v)
    <3>1. i \in 1..Len(v)
      BY <1>10, <2>1
    <3>2. u[i] = v[i] /\ e[i] = 1 /\ Placed(v[i], x)
      BY <1>5, <1>10, <3>1 DEF SpotsOn, PlacedAt
    <3> QED
      BY <1>8, <3>2
  <2>2. CASE ~(i <= Len(v))
    <3> DEFINE j == i - Len(v)
    <3>1. j \in 1..(Len(w) - 1) /\ i = Len(v) + j /\ j + 1 \in 1..Len(w) /\ j + 1 \in 1..(Len(w) + 1)
      BY <1>10, <2>2
    <3> HIDE DEF j
    <3>2. u[i] = w[j + 1] /\ e[i] = d[j + 1] + 1 /\ Placed(w[j + 1], h[d[j + 1]])
      BY <1>2, <1>5, <1>10, <3>1 DEF SpotsOn, TasksPlaced
    <3>3. d[j + 1] \in 1..(n + 1)
      BY <1>2, <3>1 DEF Spots
    <3>4. g[e[i]] = h[d[j + 1]]
      BY <1>8, <3>2, <3>3
    <3> QED
      BY <3>2, <3>4
  <2> QED
    BY <2>1, <2>2
<1>12. TasksPlaced(u, e, g)
  BY <1>11 DEF TasksPlaced
<1>13. ListsHold(ls, h, ms, u, c) /\ MarksCount(ms, u, c)
  BY <1>2, MarksStay, ListsStay
<1>14. ListHolds(NewList, ms, x)
  <2>1. \A j \in 1..Len(ms) : OutlineOf(ms[j].id) = Home(ms[j].id) /\ Past(Home(ms[j].id), w, c)
    BY <1>2, MarksHome
  <2>2. \A j \in 1..Len(ms) : OutlineOf(ms[j].id) # x
    BY <2>1
  <2> QED
    BY <2>2, NewListHolds
<1>15. ListsHold(ls2, g, ms, u, c)
  <2> SUFFICES ASSUME NEW k \in 1..(n + 1) PROVE ListHolds(ls2[k], ms, g[k]) /\ Past(g[k], u, c)
    BY <1>4 DEF ListsHold
  <2>1. CASE k = 1
    BY <1>4, <1>8, <1>14, <2>1
  <2>2. CASE k # 1
    <3> DEFINE j == k - 1
    <3>1. j \in 1..n /\ j \in 1..(n + 1) /\ k = j + 1
      BY <1>4, <2>2
    <3> HIDE DEF j
    <3>2. ls2[k] = ls[j] /\ g[k] = h[j]
      BY <1>4, <1>8, <3>1
    <3> QED
      BY <1>13, <3>1, <3>2 DEF ListsHold, n
  <2> QED
    BY <2>1, <2>2
<1>16. NumStands(e, g, u, c, ls2, ms)
  BY <1>4, <1>5, <1>9, <1>12, <1>13, <1>15 DEF NumStands
<1> QED
  BY <1>16 DEF NumGoes, ls2

(* A list item is marked.                                                  *)
LEMMA NumItem ==
    ASSUME ConvInv, NEW w, NEW c, NEW ls, NEW ms, NumGoes(w, c, ls, ms), IsList(w), w # <<>>, ls # <<>>,
           NEW x \in Ids, x # 0, w[1].id = x, Kind(x) = "OutlineElement", NEW level, level = w[1].level
    PROVE  NumGoes(w, c, <<NextList(Head(ls), x, level)>> \o Tail(ls), Append(ms, MarkOf(Head(ls), x, level)))
<1>1. PICK d, h : NumStands(d, h, w, c, ls, ms)
  BY DEF NumGoes
<1> DEFINE n == Len(ls)
           list == Head(ls)
           next == NextList(list, x, level)
           rest == Tail(ls)
           ls2 == <<next>> \o rest
           m == MarkOf(list, x, level)
           mt == Append(ms, m)
<1>2. IsList(ls) /\ Spots(d, w, n) /\ Homes(h, n) /\ TasksPlaced(w, d, h)
      /\ ListsHold(ls, h, ms, w, c) /\ MarksCount(ms, w, c)
  BY <1>1 DEF NumStands
<1>3. /\ n \in Nat /\ n > 0 /\ list = ls[1] /\ IsList(rest) /\ Len(rest) = n - 1
      /\ \A k \in 1..(n - 1) : rest[k] = ls[k + 1]
  <2>1. n \in Nat \ {0}
    BY <1>2, TailPlaces
  <2>2. n > 0
    BY <2>1
  <2> HIDE DEF n
  <2>3. Len(ls) = n
    BY DEF n
  <2> QED
    BY <1>2, <2>1, <2>2, <2>3, TailPlaces
<1>4. InFront(ls2, next, rest)
  BY <1>3, ListInFront
<1>5. IsList(ls2) /\ Len(ls2) = n /\ ls2[1] = next /\ \A k \in 1..(n - 1) : ls2[k + 1] = ls[k + 1]
  <2> HIDE DEF ls2, next, rest, n
  <2>1. /\ IsList(ls2) /\ Len(ls2) = Len(rest) + 1 /\ ls2[1] = next
        /\ \A k \in 1..Len(rest) : ls2[k + 1] = rest[k]
    BY <1>4 DEF InFront
  <2>2. Len(ls2) = n
    BY <1>3, <2>1
  <2>3. \A k \in 1..(n - 1) : ls2[k + 1] = ls[k + 1]
    BY <1>3, <2>1
  <2> QED
    BY <2>1, <2>2, <2>3
<1> HIDE DEF rest, ls2
<1>6. d[1] = 1 /\ Len(w) \in Nat \ {0}
  <2>1. Len(w) \in Nat \ {0}
    BY TailPlaces
  <2> QED
    BY <1>2, <2>1 DEF Spots
<1>7. Placed(w[1], h[1])
  <2>1. 1 \in 1..Len(w)
    BY <1>6
  <2> QED
    BY <1>2, <1>6, <2>1 DEF TasksPlaced
<1>8. Home(x) = h[1] /\ level \in Nat /\ level <= Maker(x)
  BY <1>7 DEF Placed
<1>9. h[1] # 0 /\ Past(h[1], w, c) /\ ListHolds(list, ms, h[1])
  <2>1. 1 \in 1..n
    BY <1>3
  <2> QED
    BY <1>2, <1>3, <2>1 DEF Homes, ListsHold, n
<1>10. OutlineOf(x) = h[1]
  BY <1>8, <1>9, HomeIsOutline
<1>11. level \in Levels
  <2>1. Len(tree) \in Nat /\ Ids = 0..(2 * Len(tree))
    BY IdNumbers DEF ConvInv
  <2>2. Maker(x) \in Nat /\ Maker(x) <= Len(tree)
    BY <2>1 DEF Maker
  <2> QED
    BY <1>8, <2>1, <2>2 DEF Levels
<1>12. IsList(ms)
  BY <1>2 DEF MarksCount
<1> HIDE DEF mt, list
<1>13. LongerBy(mt, ms, m)
  BY <1>12, ListLonger DEF mt
<1>14. m.id = x
  BY DEF MarkOf
<1>15. ListHolds(next, mt, h[1]) /\ Counted(mt, Len(mt))
  <2>1. ListHolds(list, ms, OutlineOf(x))
    BY <1>9, <1>10
  <2>2. LongerBy(mt, ms, MarkOf(list, x, level))
    BY <1>13
  <2>3. ListHolds(next, mt, OutlineOf(x)) /\ Counted(mt, Len(mt))
    BY <1>11, <1>12, <2>1, <2>2, ListNext
  <2> QED
    BY <1>10, <2>3
<1> HIDE DEF m, next, n
<1>16. ListsHold(ls2, h, mt, w, c)
  <2> SUFFICES ASSUME NEW k \in 1..n PROVE ListHolds(ls2[k], mt, h[k]) /\ Past(h[k], w, c)
    BY <1>5 DEF ListsHold
  <2>1. CASE k = 1
    BY <1>5, <1>9, <1>15, <2>1
  <2>2. CASE k # 1
    <3>1. k - 1 \in 1..(n - 1) /\ k = (k - 1) + 1
      BY <1>3, <2>2
    <3>2. ls2[k] = ls[k]
      BY <1>5, <3>1
    <3>3. ListHolds(ls[k], ms, h[k]) /\ Past(h[k], w, c)
      BY <1>2 DEF ListsHold, n
    <3>4. h[k] # h[1]
      <4>1. 1 \in 1..(n + 1) /\ k \in 1..(n + 1)
        BY <1>3
      <4> QED
        BY <1>2, <2>2, <4>1 DEF Homes
    <3>5. OutlineOf(m.id) # h[k]
      BY <1>10, <1>14, <3>4
    <3>6. ListHolds(ls[k], mt, h[k])
      BY <1>13, <3>3, <3>5, OtherLists
    <3> QED
      BY <3>2, <3>3, <3>6
  <2> QED
    BY <2>1, <2>2
<1>17. MarksCount(mt, w, c)
  <2>1. IsList(mt) /\ Len(ms) \in Nat /\ Len(mt) = Len(ms) + 1 /\ mt[Len(mt)] = m
        /\ \A j \in 1..Len(ms) : mt[j] = ms[j]
    BY <1>13 DEF LongerBy
  <2> SUFFICES ASSUME NEW k \in 1..Len(mt) PROVE MarkCounts(mt[k], w, c) /\ Counted(mt, k)
    BY <2>1 DEF MarksCount
  <2>2. CASE k \in 1..Len(ms)
    <3>1. MarkCounts(ms[k], w, c) /\ Counted(ms, k)
      BY <1>2, <2>2 DEF MarksCount
    <3>2. Counted(mt, k)
      BY <1>13, <2>2, <3>1, EarlierCounts
    <3> QED
      BY <2>1, <2>2, <3>1, <3>2
  <2>3. CASE k = Len(mt)
    <3>1. MarkCounts(m, w, c)
      BY <1>8, <1>9, <1>14 DEF MarkCounts
    <3> QED
      BY <1>15, <2>1, <2>3, <3>1
  <2>4. k \in 1..Len(ms) \/ k = Len(mt)
    BY <2>1
  <2> QED
    BY <2>2, <2>3, <2>4
<1>18. NumStands(d, h, w, c, ls2, mt)
  BY <1>2, <1>5, <1>16, <1>17 DEF NumStands, n
<1>19. NumGoes(w, c, ls2, mt)
  BY <1>18 DEF NumGoes
<1> QED
  BY <1>19 DEF ls2, mt, m, next, rest, list

(* Outside of all outlines there is no list state.                         *)
LEMMA NumOutside ==
    ASSUME NEW w, NEW c, NEW ls, NEW ms, NumGoes(w, c, ls, ms), IsList(w)
    PROVE  /\ w = <<>> => ls = <<>>
           /\ w # <<>> /\ ls = <<>> /\ w[1].id # 0 => Home(w[1].id) = 0
<1>1. PICK d, h : NumStands(d, h, w, c, ls, ms)
  BY DEF NumGoes
<1>2. IsList(ls) /\ Spots(d, w, Len(ls)) /\ Homes(h, Len(ls)) /\ TasksPlaced(w, d, h)
  BY <1>1 DEF NumStands
<1>3. Len(ls) \in Nat
  BY <1>2, ListPlaces DEF Places
<1>4. CASE w = <<>>
  <2>1. Len(w) = 0 /\ Len(w) + 1 = 1
    BY <1>4
  <2>2. Len(ls) = 0
    BY <1>2, <1>3, <2>1 DEF Spots
  <2>3. ls = <<>>
    <3>1. PICK S : ls \in Seq(S)
      BY <1>2 DEF IsList
    <3> QED
      BY <2>2, <3>1, EmptySeq
  <2> QED
    BY <1>4, <2>3
<1>5. CASE w # <<>> /\ ls = <<>> /\ w[1].id # 0
  <2>1. Len(w) \in Nat \ {0} /\ Len(ls) = 0
    BY <1>5, TailPlaces
  <2>2. 1 \in 1..Len(w)
    BY <2>1
  <2>3. d[1] = 1 /\ h[1] = 0
    BY <1>2, <2>1 DEF Spots, Homes
  <2>4. Placed(w[1], 0)
    BY <1>2, <2>2, <2>3 DEF TasksPlaced
  <2> QED
    BY <1>5, <2>4 DEF Placed
<1> QED
  BY <1>4, <1>5

(* The elements of a page come.                                            *)
LEMMA NumPage ==
    ASSUME NEW c, NEW ls, NEW ms, NumGoes(<<>>, c, ls, ms), NEW v, IsList(v), NEW b,
           \A i \in 1..Len(v) : v[i].id # 0, PlacedAt(v, 0), PastFrom(<<>>, c, v, b)
    PROVE  NumGoes(v, b, ls, ms)
<1>1. PICK d, h : NumStands(d, h, <<>>, c, ls, ms)
  BY DEF NumGoes
<1>2. ls = <<>> /\ IsList(<<>>)
  BY NumOutside, ListSmall
<1>3. Len(ls) = 0 /\ IsList(ls) /\ Len(v) \in Nat
  BY <1>2, ListPlaces DEF Places
<1>4. Homes(h, 0) /\ ListsHold(ls, h, ms, <<>>, c) /\ MarksCount(ms, <<>>, c)
  BY <1>1, <1>3 DEF NumStands
<1> DEFINE e == [i \in 1..(Len(v) + 1) |-> 1]
<1>5. Spots(e, v, 0)
  BY <1>3 DEF Spots
<1>6. \A i \in 1..Len(v) : e[i] = 1
  BY <1>3
<1> HIDE DEF e
<1>7. h[1] = 0
  BY <1>4 DEF Homes
<1>8. TasksPlaced(v, e, h)
  BY <1>6, <1>7 DEF TasksPlaced, PlacedAt
<1>9. ListsHold(ls, h, ms, v, b) /\ MarksCount(ms, v, b)
  BY <1>4, MarksStay, ListsStay
<1>10. NumStands(e, h, v, b, ls, ms)
  BY <1>3, <1>4, <1>5, <1>8, <1>9 DEF NumStands
<1> QED
  BY <1>10 DEF NumGoes

LEMMA NumStarts ==
    ASSUME NEW c
    PROVE  NumGoes(<<>>, c, <<>>, <<>>)
<1> DEFINE d == [i \in 1..1 |-> 1]
           h == [k \in 1..1 |-> 0]
<1>1. Len(<<>>) = 0 /\ IsList(<<>>)
  BY ListSmall
<1>2. Spots(d, <<>>, 0)
  BY <1>1 DEF Spots
<1>3. Homes(h, 0)
  BY DEF Homes
<1> HIDE DEF d, h
<1>4. TasksPlaced(<<>>, d, h) /\ ListsHold(<<>>, h, <<>>, <<>>, c) /\ MarksCount(<<>>, <<>>, c)
  BY <1>1 DEF TasksPlaced, ListsHold, MarksCount
<1>5. NumStands(d, h, <<>>, c, <<>>, <<>>)
  BY <1>1, <1>2, <1>3, <1>4 DEF NumStands
<1> QED
  BY <1>5 DEF NumGoes

(* The tasks of a list of elements of one outline.                         *)
AllPlaced(v, home) == IsList(v) /\ \A t \in Range(v) : t.id # 0 /\ Placed(t, home)

LEMMA AllPlacedFacts ==
    ASSUME NEW v, NEW home, AllPlaced(v, home)
    PROVE  PlacedAt(v, home) /\ \A i \in 1..Len(v) : v[i].id # 0
<1>1. \A i \in 1..Len(v) : v[i] \in Range(v)
  BY ListPlaces DEF AllPlaced, Places
<1> QED
  BY <1>1 DEF AllPlaced, PlacedAt

LEMMA PlacedTasks ==
    ASSUME NEW seq, NEW level \in Nat, NEW home, IsList(Tasks(seq, level)),
           \A y \in Range(seq) : y # 0 /\ Home(y) = home /\ level <= Maker(y)
    PROVE  AllPlaced(Tasks(seq, level), home)
<1>1. \A t \in Range(Tasks(seq, level)) : t.id \in Range(seq) /\ t.level = level
  BY DEF Range, Tasks, Task
<1> QED
  BY <1>1 DEF AllPlaced, Placed

LEMMA PlacedItems ==
    ASSUME NEW elem, NEW level \in Nat, NEW marker, NEW home, IsList(ItemTasks(elem, level, marker)),
           \A y \in Range(contents[elem]) : y # 0 /\ Home(y) = home /\ level <= Maker(y)
    PROVE  AllPlaced(ItemTasks(elem, level, marker), home)
<1> DEFINE seq == contents[elem]
           f == ItemTasks(elem, level, marker)
<1>1. DOMAIN f = DOMAIN seq
  BY DEF ItemTasks
<1>2. \A i \in DOMAIN seq : f[i].id = seq[i] /\ f[i].level = level
  BY DEF ItemTasks, Task
<1> HIDE DEF f, seq
<1>3. \A t \in Range(f) : t.id \in Range(seq) /\ t.level = level
  BY <1>1, <1>2 DEF Range
<1> QED
  BY <1>3 DEF AllPlaced, Placed, f, seq

LEMMA PlacedFollow ==
    ASSUME NEW s, NEW t, NEW home, AllPlaced(s, home), AllPlaced(t, home)
    PROVE  AllPlaced(s \o t, home)
BY ListConcat DEF AllPlaced

-----------------------------------------------------------------------------
NumStory == NumGoes(work, ComingFrom(page), lists, marks)
NumNext  == NumGoes(work', ComingFrom(page'), lists', marks')

LEMMA WorkFacts ==
    ASSUME MarksGo
    PROVE  ConvInv /\ Stands(work, ComingFrom(page)) /\ IsList(work)
BY DEF MarksGo, StoryGoes, Stands, WorkStands

LEMMA TailReplaces ==
    ASSUME NEW w, IsList(w), w # <<>>
    PROVE  Replaced(Tail(w), <<>>, w) /\ Head(w) = w[1]
<1>1. IsList(<<>>) /\ IsList(Tail(w))
  BY ListSmall, ListTail
<1>2. Replaced(<<>> \o Tail(w), <<>>, w) /\ Head(w) = w[1]
  BY <1>1, ReplacedHead
<1>3. <<>> \o Tail(w) = Tail(w)
  <2>1. PICK S : Tail(w) \in Seq(S)
    BY <1>1 DEF IsList
  <2> QED
    BY <2>1, ConcatEmptySeq
<1> QED
  BY <1>2, <1>3

LEMMA DoneNums ==
    ASSUME MarksGo, NumStory, work # <<>>, top.id # 0, NEW fl, Done(fl)
    PROVE  NumNext
<1> DEFINE c == ComingFrom(page)
           u == Tail(work)
<1>1. work' = u /\ lists' = lists /\ marks' = marks /\ page' = page
  BY DEF Done
<1>2. IsList(work)
  BY WorkFacts
<1>3. Replaced(u, <<>>, work) /\ work[1].id # 0
  BY <1>2, TailReplaces DEF top
<1>4. PastFrom(work, c, u, c)
  BY <1>2, PastTail DEF PastFrom
<1>5. Len(<<>>) = 0 /\ PlacedAt(<<>>, Home(work[1].id))
  BY DEF PlacedAt
<1>6. \A i \in 1..Len(<<>>) : <<>>[i].id # 0
  BY <1>5
<1> HIDE DEF c, u
<1>7. NumGoes(work, c, lists, marks)
  BY DEF NumStory, c
<1> DEFINE v == <<>>
<1>8. Replaced(u, v, work) /\ PlacedAt(v, Home(work[1].id)) /\ \A i \in 1..Len(v) : v[i].id # 0
  BY <1>3, <1>5, <1>6
<1> HIDE DEF v
<1>9. NumGoes(u, c, lists, marks)
  BY <1>2, <1>3, <1>4, <1>7, <1>8, NumOpened
<1>10. ComingFrom(page') = c
  BY <1>1 DEF c
<1> QED
  BY <1>1, <1>9, <1>10 DEF NumNext

LEMMA EndOutlineNums ==
    ASSUME MarksGo, NumStory, EndOutline
    PROVE  NumNext
<1> DEFINE c == ComingFrom(page)
           u == Tail(work)
<1>1. /\ work # <<>> /\ top = EndTask
      /\ work' = u /\ lists' = Tail(lists) /\ marks' = marks /\ page' = page
  BY DEF EndOutline
<1>2. IsList(work)
  BY WorkFacts
<1>3. Replaced(u, <<>>, work) /\ work[1].id = 0
  BY <1>1, <1>2, TailReplaces DEF top, EndTask, Task
<1>4. PastFrom(work, c, u, c)
  BY <1>1, <1>2, PastTail DEF PastFrom
<1>5. NumGoes(work, c, lists, marks)
  BY DEF NumStory
<1> HIDE DEF c, u
<1>6. NumGoes(u, c, Tail(lists), marks)
  BY <1>1, <1>2, <1>3, <1>4, <1>5, NumEnded
<1>7. ComingFrom(page') = c
  BY <1>1 DEF c
<1> QED
  BY <1>1, <1>6, <1>7 DEF NumNext

LEMMA RenderPageNums ==
    ASSUME MarksGo, NumStory, RenderPage
    PROVE  NumNext
<1> DEFINE p == Pages[page]
           v == Tasks(PageItems(p), 0)
           c == ComingFrom(page)
<1>1. /\ work = <<>> /\ page \in Nat \ {0} /\ page <= Len(Pages) /\ ConvInv
      /\ work' = v /\ page' = page + 1 /\ marks' = marks /\ lists' = lists
  BY DEF RenderPage, MarksGo
<1>2. NumGoes(<<>>, c, lists, marks)
  BY <1>1 DEF NumStory
<1>3. p \in c /\ p \in Range(Pages) /\ ComingFrom(page + 1) = c \ {p}
  BY <1>1, NextPages
<1>4. p \in Ids /\ Kind(p) = "Page"
  BY <1>1, <1>3, PagesFacts
<1> HIDE DEF p, c
<1>5. PageItems(p) \in Seq(Ids) /\ Unrelated(PageItems(p)) /\ Range(PageItems(p)) \subseteq Kids(p)
  BY <1>1, <1>4, PageItemsStand
<1>6. \A y \in Range(PageItems(p)) : y > 0 /\ y # 0 /\ Home(y) = 0 /\ 0 <= Maker(y)
  <2> TAKE y \in Range(PageItems(p))
  <2>1. y \in Kids(p)
    BY <1>5
  <2>2. y > 0 /\ HomeBelow(p, y) /\ Maker(y) \in Nat
    BY <1>1, <1>4, <2>1, KidFacts, HomeFacts, KidPlace
  <2> QED
    BY <1>4, <2>2 DEF HomeBelow
<1>7. WorkStands(v) /\ MadeOf(v, Range(PageItems(p)))
  BY <1>1, <1>5, <1>6, TasksStand
<1>8. IsList(v)
  BY <1>7 DEF WorkStands
<1>9. AllPlaced(v, 0)
  BY <1>6, <1>8, PlacedTasks
<1> HIDE DEF v
<1>10. PlacedAt(v, 0) /\ \A i \in 1..Len(v) : v[i].id # 0
  BY <1>9, AllPlacedFacts
<1>11. PastFrom(<<>>, c, v, c \ {p})
  <2>1. \A t \in Range(v) : t.id \in Kids(p)
    BY <1>5, <1>7 DEF MadeOf
  <2>2. \A y \in Kids(p) : Under(y) \subseteq Under(p)
    BY <1>1, <1>4, UnderFacts
  <2> QED
    BY <1>3, <2>1, <2>2 DEF PastFrom, Past
<1>12. NumGoes(v, c \ {p}, lists, marks)
  BY <1>2, <1>8, <1>10, <1>11, NumPage
<1>13. ComingFrom(page') = c \ {p}
  BY <1>1, <1>3
<1> QED
  BY <1>1, <1>12, <1>13 DEF NumNext

LEMMA RenderOutlineNums ==
    ASSUME MarksGo, NumStory, RenderOutline
    PROVE  NumNext
<1> DEFINE x == top.id
           k == Tasks(children[x], 0)
           v == k \o <<EndTask>>
           u == v \o Tail(work)
           c == ComingFrom(page)
<1>1. /\ work # <<>> /\ x > 0 /\ Kind(x) = "Outline" /\ ConvInv
      /\ work' = u /\ marks' = marks /\ page' = page /\ lists' = <<NewList>> \o lists
  BY DEF RenderOutline, Rendering, MarksGo
<1>2. x \in Ids /\ x # 0 /\ x \in Under(x)
  BY <1>1, TopStands
<1>3. IsList(work) /\ Stands(work, c) /\ StoryGoes(work, c, story, marks)
  BY WorkFacts DEF MarksGo
<1>4. children[x] \in Seq(Ids) /\ Unrelated(children[x]) /\ Range(children[x]) \subseteq Kids(x)
  BY <1>1, <1>2, ListsApart, KidsSeparate DEF Kids
<1>5. \A y \in Range(children[x]) : y > 0 /\ y # 0 /\ Home(y) = x /\ 0 <= Maker(y)
  <2> TAKE y \in Range(children[x])
  <2>1. y \in Kids(x)
    BY <1>4
  <2>2. y > 0 /\ y # 0 /\ HomeBelow(x, y) /\ Maker(y) \in Nat
    BY <1>1, <1>2, <2>1, KidFacts, HomeFacts, KidPlace
  <2> QED
    BY <1>1, <2>2 DEF HomeBelow
<1>6. WorkStands(k) /\ MadeOf(k, Range(children[x]))
  BY <1>1, <1>4, <1>5, TasksStand
<1>7. IsList(k)
  BY <1>6 DEF WorkStands
<1>8. AllPlaced(k, x)
  BY <1>5, <1>7, PlacedTasks
<1> HIDE DEF k, c
<1>9. PlacedAt(k, x) /\ \A i \in 1..Len(k) : k[i].id # 0
  BY <1>8, AllPlacedFacts
<1>10. WorkStands(<<EndTask>>) /\ Range(<<EndTask>>) = {EndTask} /\ EndTask.id = 0
  BY <1>1, EndTaskStands
<1> DEFINE z == <<EndTask>>
<1>11. IsList(z) /\ Len(z) = 1 /\ z[1].id = 0
  BY <1>10 DEF WorkStands
<1>12. \A a \in Range(k), b \in Range(z) : ~Clash(a, b)
  BY <1>10 DEF Clash
<1>13. WorkStands(v) /\ Range(v) = Range(k) \cup {EndTask}
  BY <1>6, <1>10, <1>12, WorkFollow
<1> HIDE DEF z
<1>14. /\ IsList(v) /\ Len(k) \in Nat /\ Len(v) = Len(k) + 1
       /\ \A i \in 1..(Len(k) + 1) : v[i] = IF i <= Len(k) THEN k[i] ELSE z[i - Len(k)]
  <2>1. v = k \o z
    BY DEF z
  <2> HIDE DEF v
  <2>2. IsList(k \o z) /\ Follows(k, z) /\ Places(k)
    BY <1>7, <1>11, ListFollows
  <2>3. Len(k) \in Nat
    BY <1>7, <2>2 DEF Places
  <2>4. /\ Len(k \o z) = Len(k) + 1
        /\ \A i \in 1..(Len(k) + 1) : (k \o z)[i] = IF i <= Len(k) THEN k[i] ELSE z[i - Len(k)]
    BY <1>11, <2>2 DEF Follows
  <2> QED
    BY <2>1, <2>2, <2>3, <2>4
<1> HIDE DEF v
<1>15. \A i \in 1..Len(v) : v[i].id = 0 <=> i = Len(v)
  <2> TAKE i \in 1..Len(v)
  <2>1. CASE i <= Len(k)
    BY <1>9, <1>14, <2>1
  <2>2. CASE ~(i <= Len(k))
    <3>1. i = Len(k) + 1 /\ i - Len(k) = 1
      BY <1>14, <2>2
    <3> QED
      BY <1>11, <1>14, <3>1
  <2> QED
    BY <2>1, <2>2
<1>16. PlacedAt(v, x)
  <2> SUFFICES ASSUME NEW i \in 1..Len(v) PROVE Placed(v[i], x)
    BY DEF PlacedAt
  <2>1. CASE i <= Len(k)
    <3>1. i \in 1..Len(k) /\ v[i] = k[i]
      BY <1>14, <2>1
    <3> QED
      BY <1>9, <3>1 DEF PlacedAt
  <2>2. CASE ~(i <= Len(k))
    <3>1. v[i].id = 0
      BY <1>14, <1>15, <2>2
    <3> QED
      BY <3>1 DEF Placed
  <2> QED
    BY <2>1, <2>2
<1>17. Inner(x, v)
  BY <1>4, <1>6, <1>10, <1>13 DEF Inner, MadeOf
<1>18. Replaced(u, v, work) /\ work[1].id = x /\ Head(work).id = x
  BY <1>1, <1>3, <1>14, ReplacedHead DEF top
<1>19. Past(x, u, c)
  <2>1. Opened(work, c, story, marks, v)
    BY <1>1, <1>2, <1>3, <1>13, <1>17, TaskOpened DEF top
  <2> QED
    BY <2>1 DEF Opened, top
<1>20. PastFrom(work, c, u, c)
  <2>1. Head(work).id # 0 /\ Inner(Head(work).id, v)
    BY <1>2, <1>17, <1>18
  <2> QED
    BY <1>1, <1>3, <1>14, <2>1, PastOpened DEF PastFrom
<1>21. ~Past(x, work, c)
  <2>1. Head(work) \in Range(work)
    BY <1>1, <1>3, HeadStands
  <2> QED
    BY <1>2, <1>18, <2>1 DEF Past
<1>22. x \in Nat \ {0}
  BY <1>1, <1>2, IdNumbers DEF ConvInv
<1>23. NumGoes(work, c, lists, marks)
  BY DEF NumStory, c
<1>24. Len(v) > 0
  BY <1>14
<1> HIDE DEF u, x
<1>25. NumGoes(u, c, <<NewList>> \o lists, marks)
  BY <1>1, <1>3, <1>15, <1>16, <1>18, <1>19, <1>20, <1>21, <1>22, <1>23, <1>24, NumOutline
<1>26. ComingFrom(page') = c
  BY <1>1 DEF c
<1> QED
  BY <1>1, <1>25, <1>26 DEF NumNext

LEMMA RenderElementNums ==
    ASSUME MarksGo, NumStory, RenderElement
    PROVE  NumNext
<1> DEFINE x == top.id
           level  == top.level
           marker == IF lists = <<>> THEN NoMarker ELSE Marker(Head(lists), x, level)
           items  == IF marker = NoMarker THEN Tasks(contents[x], level) ELSE ItemTasks(x, level, marker)
           kids   == Tasks(children[x], level + 1)
           v == items \o kids
           u == v \o Tail(work)
           c == ComingFrom(page)
<1>1. /\ work # <<>> /\ x > 0 /\ Kind(x) = "OutlineElement" /\ ConvInv
      /\ work' = u /\ page' = page
  BY DEF RenderElement, Rendering, MarksGo
<1>2. NumGoes(work, c, lists', marks')
  <2>1. CASE lists = <<>>
    <3>1. lists' = lists /\ marks' = marks
      BY <2>1 DEF RenderElement
    <3> QED
      BY <3>1 DEF NumStory
  <2>2. CASE lists # <<>>
    <3>1. /\ lists' = <<NextList(Head(lists), x, level)>> \o Tail(lists)
          /\ marks' = Append(marks, MarkOf(Head(lists), x, level))
      BY <2>2 DEF RenderElement, MarkOf
    <3>2. IsList(work) /\ Head(work) = work[1]
      BY <1>1, WorkFacts, TailReplaces
    <3>3. work[1].id = x /\ level = work[1].level /\ x \in Ids /\ x # 0
      BY <1>1, <3>2, TopStands DEF top
    <3>4. NumGoes(work, c, lists, marks)
      BY DEF NumStory
    <3> HIDE DEF x, level, c
    <3>5. NumGoes(work, c, <<NextList(Head(lists), x, level)>> \o Tail(lists),
                  Append(marks, MarkOf(Head(lists), x, level)))
      BY <1>1, <2>2, <3>2, <3>3, <3>4, NumItem
    <3> QED
      BY <3>1, <3>5
  <2> QED
    BY <2>1, <2>2
<1>3. x \in Ids /\ x # 0 /\ IsList(work) /\ Stands(work, c) /\ Head(work) = work[1]
  BY <1>1, TopStands, WorkFacts, TailReplaces
<1>4. work[1].id = x /\ work[1].level = level
  BY <1>3 DEF top
<1>5. level \in Nat /\ level <= Maker(x)
  <2>1. PICK d, h : NumStands(d, h, work, c, lists', marks')
    BY <1>2 DEF NumGoes
  <2>2. 1 \in 1..Len(work)
    <3>1. Len(work) \in Nat \ {0}
      BY <1>1, <1>3, TailPlaces
    <3> QED
      BY <3>1
  <2>3. Placed(work[1], h[d[1]])
    BY <2>1, <2>2 DEF NumStands, TasksPlaced
  <2> QED
    BY <1>3, <1>4, <2>3 DEF Placed
<1> HIDE DEF x, level, c
<1> DEFINE home == Home(x)
<1>6. /\ children[x] \in Seq(Ids) /\ Unrelated(children[x]) /\ Range(children[x]) \subseteq Kids(x)
      /\ contents[x] \in Seq(Ids) /\ Unrelated(contents[x]) /\ Range(contents[x]) \subseteq Kids(x)
  BY <1>1, <1>3, ListsApart, KidsSeparate DEF Kids
<1>7. \A y \in Kids(x) : y > 0 /\ y # 0 /\ Home(y) = home /\ Maker(y) \in Nat /\ Maker(x) \in Nat
  <2> TAKE y \in Kids(x)
  <2>1. y > 0 /\ y # 0 /\ HomeBelow(x, y) /\ Maker(y) \in Nat /\ Maker(x) \in Nat
    BY <1>1, <1>3, KidFacts, HomeFacts, KidPlace
  <2> QED
    BY <1>1, <2>1 DEF HomeBelow
<1> HIDE DEF home
<1>8. \A y \in Range(contents[x]) : y > 0 /\ y # 0 /\ Home(y) = home /\ level <= Maker(y)
  <2> TAKE y \in Range(contents[x])
  <2>1. y \in Kids(x) /\ Maker(y) >= Maker(x)
    BY <1>1, <1>3, <1>6, LowerLevels
  <2> QED
    BY <1>5, <1>7, <2>1
<1>9. \A y \in Range(children[x]) : y > 0 /\ y # 0 /\ Home(y) = home /\ level + 1 <= Maker(y)
  <2> TAKE y \in Range(children[x])
  <2>1. y \in Kids(x) /\ Maker(y) > Maker(x)
    BY <1>1, <1>3, <1>6, LowerLevels
  <2> QED
    BY <1>5, <1>7, <2>1
<1>10. AllPlaced(items, home) /\ MadeOf(items, Range(contents[x]))
  <2> HIDE DEF marker
  <2>1. CASE marker = NoMarker
    <3>1. items = Tasks(contents[x], level)
      BY <2>1
    <3>2. WorkStands(items) /\ MadeOf(items, Range(contents[x]))
      BY <1>1, <1>6, <1>8, <3>1, TasksStand
    <3>3. IsList(Tasks(contents[x], level))
      BY <3>1, <3>2 DEF WorkStands
    <3>4. AllPlaced(Tasks(contents[x], level), home)
      BY <1>5, <1>8, <3>3, PlacedTasks
    <3> QED
      BY <3>1, <3>2, <3>4
  <2>2. CASE marker # NoMarker
    <3>1. items = ItemTasks(x, level, marker)
      BY <2>2
    <3>2. WorkStands(items) /\ MadeOf(items, Range(contents[x]))
      BY <1>1, <1>3, <3>1, ItemTasksStand DEF x
    <3>3. IsList(ItemTasks(x, level, marker))
      BY <3>1, <3>2 DEF WorkStands
    <3>4. AllPlaced(ItemTasks(x, level, marker), home)
      BY <1>5, <1>8, <3>3, PlacedItems
    <3> QED
      BY <3>1, <3>2, <3>4
  <2> QED
    BY <2>1, <2>2
<1>11. AllPlaced(kids, home) /\ MadeOf(kids, Range(children[x]))
  <2>1. WorkStands(kids) /\ MadeOf(kids, Range(children[x]))
    BY <1>1, <1>6, <1>9, TasksStand
  <2>2. IsList(Tasks(children[x], level + 1)) /\ level + 1 \in Nat
    BY <1>5, <2>1 DEF WorkStands
  <2> DEFINE below == level + 1
  <2> HIDE DEF below
  <2>3. below \in Nat /\ IsList(Tasks(children[x], below))
        /\ \A y \in Range(children[x]) : y # 0 /\ Home(y) = home /\ below <= Maker(y)
    BY <1>9, <2>2 DEF below
  <2>4. AllPlaced(Tasks(children[x], below), home)
    BY <2>3, PlacedTasks
  <2> QED
    BY <2>1, <2>4 DEF below
<1> HIDE DEF items, kids
<1>12. AllPlaced(v, home)
  BY <1>10, <1>11, PlacedFollow
<1>13. Inner(x, v)
  <2>1. Range(v) = Range(items) \cup Range(kids)
    BY <1>10, <1>11, ListConcat DEF AllPlaced
  <2> QED
    BY <1>6, <1>10, <1>11, <2>1 DEF Inner, MadeOf
<1> HIDE DEF v
<1>14. IsList(v) /\ PlacedAt(v, home) /\ \A i \in 1..Len(v) : v[i].id # 0
  BY <1>12, AllPlacedFacts DEF AllPlaced
<1>15. Replaced(u, v, work)
  BY <1>1, <1>3, <1>14, ReplacedHead
<1>16. PastFrom(work, c, u, c)
  <2>1. Head(work).id # 0 /\ Inner(Head(work).id, v)
    BY <1>3, <1>4, <1>13
  <2> QED
    BY <1>1, <1>3, <1>14, <2>1, PastOpened DEF PastFrom
<1>17. work[1].id # 0 /\ PlacedAt(v, Home(work[1].id))
  BY <1>3, <1>4, <1>14 DEF home
<1> HIDE DEF u
<1>18. NumGoes(u, c, lists', marks')
  BY <1>1, <1>2, <1>3, <1>14, <1>15, <1>16, <1>17, NumOpened
<1>19. ComingFrom(page') = c
  BY <1>1 DEF c
<1> QED
  BY <1>1, <1>18, <1>19 DEF NumNext

CountedAll(ms) == IsList(ms) /\ \A k \in DOMAIN ms : Counted(ms, k)
NumsBegin == marks = <<>> /\ lists = <<>>
NumInv ==
    /\ MarkInv
    /\ doing \notin Drawing => NumsBegin
    /\ doing = "pages" => NumStory
    /\ doing \in {"build", "done"} => CountedAll(marks)

LEMMA OthersNums ==
    ASSUME MarksGo, NumStory, RenderText \/ RenderImage \/ RenderFile \/ RenderTable \/ PassElement
    PROVE  NumNext
<1>1. work # <<>> /\ top.id > 0 /\ \E fl : Done(fl)
  <2>1. CASE RenderText
    BY <2>1 DEF RenderText, Rendering
  <2>2. CASE RenderImage
    BY <2>2 DEF RenderImage, Rendering
  <2>3. CASE RenderFile
    BY <2>3 DEF RenderFile, Rendering
  <2>4. CASE RenderTable
    <3>1. work # <<>> /\ top.id > 0
      BY <2>4 DEF RenderTable, Rendering
    <3>2. \E fl : Done(fl)
      BY <2>4 DEF RenderTable
    <3> QED
      BY <3>1, <3>2
  <2>5. CASE PassElement
    BY <2>5 DEF PassElement
  <2> QED
    BY <2>1, <2>2, <2>3, <2>4, <2>5
<1>2. top.id # 0
  BY <1>1
<1> QED
  BY <1>1, <1>2, DoneNums

LEMMA RendersNums ==
    ASSUME MarksGo, NumStory, StoryNext, ~EndStory, ~Split, ~Build
    PROVE  NumNext
BY RenderPageNums, RenderOutlineNums, EndOutlineNums, RenderElementNums, OthersNums DEF StoryNext

(* The counts depend on nothing but the tree.                              *)
LEMMA CountsStay ==
    ASSUME UNCHANGED <<tree, children, contents>>
    PROVE  /\ Levels' = Levels /\ \A y : Home(y)' = Home(y) /\ Maker(y)' = Maker(y)
           /\ \A ms, k : Counted(ms, k)' <=> Counted(ms, k)
           /\ \A l, ms, o : ListHolds(l, ms, o)' <=> ListHolds(l, ms, o)
<1>1. Len(tree)' = Len(tree) /\ \A x : Kind(x)' = Kind(x)
  BY DEF Kind
<1>2. \A x : Path(x)' = Path(x)
  BY DEF Path
<1>3. \A y : Maker(y)' = Maker(y)
  BY DEF Maker
<1>4. \A y : Home(y)' = Home(y)
  BY <1>1, <1>2, <1>3 DEF Home, Outer, Up
<1>5. \A y : OutlineOf(y)' = OutlineOf(y)
  BY <1>1, <1>2 DEF OutlineOf
<1>6. (\A y : Item(y)' = Item(y)) /\ (\A y : Restart(y)' = Restart(y))
  BY DEF Item, Restart
<1>7. \A m, o, l : (EndsLevel(m, o, l)' <=> EndsLevel(m, o, l)) /\ (OnLevel(m, o, l)' <=> OnLevel(m, o, l))
  BY <1>5, <1>6 DEF EndsLevel, OnLevel
<1>8. \A ms, k, o, l : ChainAt(ms, k, o, l)' = ChainAt(ms, k, o, l)
  <2>1. \A ms, k, o, l : EndersAt(ms, k, o, l)' = EndersAt(ms, k, o, l)
    BY <1>7 DEF EndersAt
  <2> QED
    BY <1>7, <2>1 DEF ChainAt
<1>9. \A ms, k : Counted(ms, k)' <=> Counted(ms, k)
  BY <1>5, <1>6, <1>8 DEF Counted, CountsOn
<1>10. \A cell, ms, o, l : CellHolds(cell, ms, o, l)' <=> CellHolds(cell, ms, o, l)
  BY <1>6, <1>8 DEF CellHolds
<1>11. Levels' = Levels
  BY DEF Levels
<1>12. \A l, ms, o : ListHolds(l, ms, o)' <=> ListHolds(l, ms, o)
  BY <1>10, <1>11 DEF ListHolds
<1> QED
  BY <1>3, <1>4, <1>9, <1>11, <1>12

LEMMA NumsNext ==
    ASSUME UNCHANGED <<tree, children, contents>>, NumNext
    PROVE  NumStory'
<1>1. /\ \A y : Home(y)' = Home(y) /\ Maker(y)' = Maker(y)
      /\ \A ms, k : Counted(ms, k)' <=> Counted(ms, k)
      /\ \A l, ms, o : ListHolds(l, ms, o)' <=> ListHolds(l, ms, o)
  BY CountsStay
<1>2. \A x : Under(x)' = Under(x)
  BY UnderStays
<1>3. Pages' = Pages /\ Ids' = Ids /\ \A x : Kind(x)' = Kind(x)
  BY TreeStays
<1>4. ComingFrom(page)' = ComingFrom(page')
  BY <1>3 DEF ComingFrom
<1> DEFINE c == ComingFrom(page')
<1>5. PICK d, h : NumStands(d, h, work', c, lists', marks')
  BY DEF NumNext, NumGoes
<1> HIDE DEF c
<1>6. \A x, w, b : Past(x, w, b)' <=> Past(x, w, b)
  BY <1>2 DEF Past
<1>7. TasksPlaced(work', d, h) /\ ListsHold(lists', h, marks', work', c) /\ MarksCount(marks', work', c)
      /\ IsList(lists') /\ Spots(d, work', Len(lists')) /\ Homes(h, Len(lists'))
  BY <1>5 DEF NumStands
<1>8. TasksPlaced(work, d, h)'
  BY <1>1, <1>7 DEF TasksPlaced, Placed
<1>9. ListsHold(lists, h, marks, work, ComingFrom(page))'
  BY <1>1, <1>4, <1>6, <1>7 DEF ListsHold, c
<1>10. MarksCount(marks, work, ComingFrom(page))'
  BY <1>1, <1>3, <1>4, <1>6, <1>7 DEF MarksCount, MarkCounts, c
<1>11. NumStands(d, h, work, ComingFrom(page), lists, marks)'
  BY <1>7, <1>8, <1>9, <1>10 DEF NumStands
<1> QED
  BY <1>11 DEF NumStory, NumGoes

LEMMA NumsCounted ==
    ASSUME NumStory
    PROVE  CountedAll(marks)
<1>1. PICK d, h : NumStands(d, h, work, ComingFrom(page), lists, marks)
  BY DEF NumStory, NumGoes
<1>2. IsList(marks) /\ \A k \in 1..Len(marks) : Counted(marks, k)
  BY <1>1 DEF NumStands, MarksCount
<1>3. DOMAIN marks = 1..Len(marks)
  BY <1>2, ListPlaces DEF Places
<1> QED
  BY <1>2, <1>3 DEF CountedAll

LEMMA NumKeeps ==
    ASSUME NumInv, [DocumentNext]_documentVars
    PROVE  NumInv'
<1>1. MarkInv /\ MarkInv' /\ ConvInv /\ ConvInv'
  <2>1. MarkInv /\ MarkInv'
    BY MarkKeeps DEF NumInv
  <2> QED
    BY <2>1 DEF MarkInv, DocumentInv
<1>2. CASE TreeNext /\ UNCHANGED <<storyVars, domVars>>
  <2>1. doing \in Early /\ doing' \in Early
    BY <1>2 DEF TreeNext, ConvertNode, DropNode, EndConvert, FillGroup, Source, Early
  <2> QED
    BY <1>1, <1>2, <2>1 DEF NumInv, Early, Drawing, NumsBegin, storyVars
<1>3. CASE StoryNext /\ UNCHANGED domVars
  <2>1. UNCHANGED <<tree, children, contents>>
    <3>1. CASE RenderPage \/ EndOutline \/ PassElement \/ EndStory \/ Split \/ Build
      BY <1>3, <3>1, Zenon DEF RenderPage, EndOutline, PassElement, EndStory, Split, Build, treeVars, Source
    <3>2. CASE RenderOutline \/ RenderElement \/ RenderText \/ RenderImage \/ RenderFile \/ RenderTable
      BY <1>3, <3>2, Zenon DEF RenderOutline, RenderElement, RenderText, RenderImage, RenderFile, RenderTable,
         treeVars, Source
    <3> QED
      BY <1>3, <3>1, <3>2 DEF StoryNext
  <2>2. CASE ~EndStory /\ ~Split /\ ~Build
    <3>1. doing = "pages" /\ doing' = "pages"
      <4>1. CASE RenderPage \/ EndOutline \/ PassElement
        BY <4>1, Zenon DEF RenderPage, EndOutline, PassElement, treeVars
      <4>2. CASE RenderOutline \/ RenderElement \/ RenderText \/ RenderImage \/ RenderFile \/ RenderTable
        BY <4>2, Zenon DEF RenderOutline, RenderElement, RenderText, RenderImage, RenderFile, RenderTable,
           Rendering, treeVars
      <4> QED
        BY <1>3, <2>2, <4>1, <4>2 DEF StoryNext
    <3>2. MarksGo /\ NumStory
      BY <1>1, <3>1 DEF NumInv, MarkInv
    <3>3. NumNext
      BY <1>3, <2>2, <3>2, RendersNums
    <3>4. NumStory'
      BY <2>1, <3>3, NumsNext
    <3> QED
      BY <1>1, <3>1, <3>4 DEF NumInv, Drawing
  <2>3. CASE EndStory
    <3>1. doing = "pages" /\ doing' = "build" /\ marks' = marks
      BY <2>3 DEF EndStory, storyVars
    <3>2. CountedAll(marks)
      BY <3>1, NumsCounted DEF NumInv
    <3>3. CountedAll(marks)'
      BY <2>1, <3>1, <3>2, CountsStay DEF CountedAll
    <3> QED
      BY <1>1, <3>1, <3>3 DEF NumInv, Drawing
  <2>4. CASE Split \/ Build
    <3>1. doing = "build" /\ doing' \in {"build", "done"} /\ marks' = marks
      BY <2>4 DEF Split, Build, storyVars, treeVars
    <3>2. CountedAll(marks)
      BY <3>1 DEF NumInv
    <3>3. CountedAll(marks)'
      BY <2>1, <3>1, <3>2, CountsStay DEF CountedAll
    <3> QED
      BY <1>1, <3>1, <3>3 DEF NumInv, Drawing
  <2> QED
    BY <2>2, <2>3, <2>4
<1>4. CASE Load
  <2>1. doing \in Early /\ doing' = "client" /\ UNCHANGED storyVars
    BY <1>4 DEF Load, Early
  <2> QED
    BY <1>1, <2>1 DEF NumInv, Early, Drawing, NumsBegin, storyVars
<1>5. CASE InsertChild \/ RemoveChild \/ ClonePage
  <2>1. doing = "client" /\ doing' = doing /\ UNCHANGED storyVars
    BY <1>5 DEF InsertChild, RemoveChild, ClonePage, Edit, Rest, treeVars
  <2> QED
    BY <1>1, <2>1 DEF NumInv, Drawing, NumsBegin, storyVars
<1>6. CASE Save
  <2>1. doing = "client" /\ doing' = "pages" /\ UNCHANGED <<tree, children, contents, storyVars>>
    BY <1>6 DEF Save, StartStory, Source
  <2>2. work' = <<>> /\ page' = 1 /\ marks' = <<>> /\ lists' = <<>>
    BY <1>1, <2>1 DEF NumInv, MarkInv, Drawing, MarksBegin, StoryBegins, NumsBegin, storyVars
  <2>3. NumNext
    BY <2>2, NumStarts DEF NumNext
  <2>4. NumStory'
    BY <2>1, <2>3, NumsNext
  <2> QED
    BY <1>1, <2>1, <2>4 DEF NumInv, Drawing
<1>7. CASE UNCHANGED documentVars
  <2>1. UNCHANGED <<tree, children, contents, doing, storyVars>>
    BY <1>7 DEF documentVars, treeVars
  <2>2. work' = work /\ page' = page /\ marks' = marks /\ lists' = lists
    BY <2>1 DEF storyVars
  <2>3. NumStory => NumStory'
    <3>1. NumStory => NumNext
      BY <2>2 DEF NumStory, NumNext
    <3> QED
      BY <2>1, <3>1, NumsNext
  <2>4. CountedAll(marks) => CountedAll(marks)'
    <3>1. \A ms, k : Counted(ms, k)' <=> Counted(ms, k)
      BY <2>1, CountsStay
    <3> QED
      BY <2>2, <3>1 DEF CountedAll
  <2> QED
    BY <1>1, <2>1, <2>2, <2>3, <2>4 DEF NumInv, NumsBegin
<1> QED
  BY <1>2, <1>3, <1>4, <1>5, <1>6, <1>7 DEF DocumentNext, DomNext

LEMMA NumInvariant == NumInv => NumbersCount
<1> SUFFICES ASSUME NumInv PROVE NumbersCount
  OBVIOUS
<1>1. CountedAll(marks)
  <2>1. CASE doing \notin Drawing
    <3>1. marks = <<>>
      BY <2>1 DEF NumInv, NumsBegin
    <3> QED
      BY <3>1, ListSmall DEF CountedAll
  <2>2. CASE doing = "pages"
    <3>1. NumStory
      BY <2>2, Zenon DEF NumInv
    <3> QED
      BY <3>1, NumsCounted
  <2>3. CASE doing \in {"build", "done"}
    BY <2>3, Zenon DEF NumInv
  <2> QED
    BY <2>1, <2>2, <2>3 DEF Drawing
<1> SUFFICES ASSUME NEW k \in DOMAIN marks, Item(marks[k].id).numbered
             PROVE  LET item   == Item(marks[k].id)
                        marker == marks[k].marker
                        last   == marks[Max(Numbers(k))]
                    IN  IF Restart(marks[k].id) # NoRestart THEN Shows(marker, Restart(marks[k].id))
                        ELSE IF Numbers(k) = {} \/ Item(last.id).key # item.key THEN Shows(marker, 1)
                        ELSE Item(last.id) = item => Shows(marker, Value(last.marker) + 1)
  BY Zenon DEF NumbersCount
<1> DEFINE o == OutlineOf(marks[k].id)
           l == marks[k].level
           mates == {j \in 1..(k - 1) : OutlineOf(marks[j].id) = o}
           ends  == {j \in mates : marks[j].level < l \/ (marks[j].level = l /\ Item(marks[j].id) = NoFormat)}
           chain == {j \in mates : /\ marks[j].level = l /\ Item(marks[j].id).numbered
                                   /\ \A e \in ends : e < j}
           last  == marks[Max(chain)]
<1>2. ends = EndersAt(marks, k - 1, o, l)
  BY DEF EndersAt, EndsLevel
<1>3. chain = ChainAt(marks, k - 1, o, l) /\ Numbers(k) = chain
  <2>1. Numbers(k) = chain
    BY DEF Numbers
  <2> HIDE DEF ends
  <2> QED
    BY <1>2, <2>1 DEF ChainAt, OnLevel
<1>4. CountsOn(marks, k, Item(marks[k].id), marks[k].marker, Restart(marks[k].id), chain)
  <2> HIDE DEF chain
  <2> QED
    BY <1>1, <1>3 DEF CountedAll, Counted
<1>5. chain # {} => Item(last.id).numbered /\ last.marker.style = Item(last.id).style
  <2> SUFFICES ASSUME chain # {}
               PROVE  Item(last.id).numbered /\ last.marker.style = Item(last.id).style
    OBVIOUS
  <2>1. k - 1 \in Nat /\ DOMAIN marks = 1..Len(marks) /\ Len(marks) \in Nat
    BY <1>1, ListPlaces DEF CountedAll, Places
  <2>2. Max(chain) \in chain
    <3> HIDE DEF chain
    <3> QED
      BY <1>3, <2>1, ChainFacts
  <2> DEFINE j == Max(chain)
  <2> HIDE DEF j
  <2>3. j \in 1..(k - 1) /\ Item(marks[j].id).numbered
    BY <2>2 DEF j
  <2>4. j \in DOMAIN marks
    BY <2>1, <2>3
  <2>5. Counted(marks, j)
    BY <1>1, <2>4 DEF CountedAll
  <2>6. marks[j].marker.style = Item(marks[j].id).style
    BY <2>3, <2>5 DEF Counted, CountsOn
  <2> QED
    BY <2>3, <2>6 DEF j
<1> HIDE DEF chain
<1> QED
  BY <1>3, <1>4, <1>5, Zenon DEF CountsOn, last

(* However outlines and lists lie in one another, a list item shows its    *)
(* restart value, or 1 if the last item of its outline and level has       *)
(* another key or an item further out or a paragraph lies between, or the  *)
(* number after that item's if their key and style are the same: for every *)
(* document the parser can make and every format, to any number, in the    *)
(* letters of _number_to_alpha and, to 3999, in the numerals of            *)
(* _number_to_roman.                                                       *)
THEOREM ItemsCount == DocumentSpec => []NumbersCount
<1>1. DocumentInit => NumInv
  <2>1. DocumentInit => DocumentInv
    BY DocumentBegins
  <2>2. DocumentInit => MarkInv
    BY <2>1 DEF MarkInv, DocumentInit, TreeInit, StoryInit, Drawing, MarksBegin, StoryBegins
  <2> QED
    BY <2>2 DEF NumInv, DocumentInit, TreeInit, StoryInit, Drawing, NumsBegin
<1>2. NumInv /\ [DocumentNext]_documentVars => NumInv'
  BY NumKeeps
<1>3. NumInv => NumbersCount
  BY NumInvariant
<1> QED
  BY <1>1, <1>2, <1>3, PTL DEF DocumentSpec

-----------------------------------------------------------------------------
(* Nodes come after the node they lie in.                                  *)
LEMMA NodeInduction ==
    ASSUME TreeIsFile, NEW P, 0 \in P, \A i \in Nodes : tree[i].parent \in P => i \in P
    PROVE  0..Len(tree) \subseteq P
<1> DEFINE Bad == (0..Len(tree)) \ P
<1>0. Len(tree) \in Nat /\ Nodes = 1..Len(tree)
  BY IdNumbers
<1> SUFFICES ASSUME Bad # {} PROVE FALSE
  OBVIOUS
<1>1. PICK i \in Bad : \A j \in Bad : i <= j
  <2>1. Bad \subseteq Nat
    BY <1>0
  <2> HIDE DEF Bad
  <2> QED
    BY <2>1, LeastNatural
<1>2. i \in Nodes /\ i \notin P /\ i \in Nat /\ i <= Len(tree)
  BY <1>0
<1> DEFINE p == tree[i].parent
<1>3. p \in Nat /\ p < i
  BY <1>2, IdNumbers
<1>4. p \notin P
  BY <1>2
<1> HIDE DEF p
<1>5. p \in Bad /\ ~(i <= p)
  BY <1>0, <1>2, <1>3, <1>4
<1> HIDE DEF Bad
<1> QED
  BY <1>1, <1>5

LEMMA PathUp ==
    ASSUME TreeIsFile
    PROVE  \A z \in 0..Len(tree) : \A u \in Path(z) : u \in Nodes /\ u <= z /\ Path(u) \subseteq Path(z)
<1> DEFINE Fine == {z \in 0..Len(tree) : \A u \in Path(z) : u \in Nodes /\ Path(u) \subseteq Path(z)}
<1>0. Len(tree) \in Nat /\ Nodes = 1..Len(tree)
  BY IdNumbers
<1>1. 0 \in Fine
  BY <1>0, PathIs
<1>2. ASSUME NEW i \in Nodes, tree[i].parent \in Fine PROVE i \in Fine
  <2>1. Path(i) = {i} \cup Path(tree[i].parent) /\ i \in 0..Len(tree)
    BY <1>0, PathIs
  <2> QED
    BY <1>2, <2>1
<1> HIDE DEF Fine
<1>3. 0..Len(tree) \subseteq Fine
  BY <1>1, <1>2, NodeInduction
<1>4. ASSUME NEW z \in 0..Len(tree), NEW u \in Path(z)
      PROVE  u \in Nodes /\ u <= z /\ Path(u) \subseteq Path(z)
  <2>1. u \in Nodes /\ Path(u) \subseteq Path(z)
    BY <1>3 DEF Fine
  <2>2. Path(z) \subseteq 1..z
    BY PathBelow
  <2> QED
    BY <2>1, <2>2
<1> QED
  BY <1>4

(* Of the nodes around a node each has another parent, and of two of them  *)
(* one lies in the other.                                                  *)
LEMMA PathOnce ==
    ASSUME TreeIsFile
    PROVE  \A z \in 0..Len(tree) : \A u, v \in Path(z) : tree[u].parent = tree[v].parent => u = v
<1> DEFINE Fine == {z \in 0..Len(tree) : \A u, v \in Path(z) : tree[u].parent = tree[v].parent => u = v}
<1>0. Len(tree) \in Nat /\ Nodes = 1..Len(tree)
  BY IdNumbers
<1>1. 0 \in Fine
  BY <1>0, PathIs
<1>2. ASSUME NEW i \in Nodes, tree[i].parent \in Fine PROVE i \in Fine
  <2> DEFINE p == tree[i].parent
  <2>1. Path(i) = {i} \cup Path(p) /\ i \in 0..Len(tree) /\ p \in 0..Len(tree) /\ p \in Nat
    <3>1. p \in Nat /\ p <= Len(tree)
      BY IdNumbers
    <3> QED
      BY <1>0, <3>1, PathIs
  <2>2. \A u \in Path(p) : tree[u].parent # p
    <3> TAKE u \in Path(p)
    <3>1. u \in Nodes /\ u <= p
      BY <2>1, PathUp
    <3>2. tree[u].parent < u /\ tree[u].parent \in Nat /\ u \in Nat
      BY <3>1, IdNumbers
    <3> HIDE DEF p
    <3> QED
      BY <2>1, <3>1, <3>2
  <2>3. \A u, v \in Path(p) : tree[u].parent = tree[v].parent => u = v
    BY <1>2
  <2>4. \A u, v \in Path(i) : tree[u].parent = tree[v].parent => u = v
    BY <2>1, <2>2, <2>3
  <2> QED
    BY <2>1, <2>4
<1> HIDE DEF Fine
<1>3. 0..Len(tree) \subseteq Fine
  BY <1>1, <1>2, NodeInduction
<1> QED
  BY <1>3 DEF Fine

LEMMA PathChain ==
    ASSUME TreeIsFile
    PROVE  \A z \in 0..Len(tree) : \A u, v \in Path(z) : u <= v => u \in Path(v)
<1> DEFINE Fine == {z \in 0..Len(tree) : \A u, v \in Path(z) : u <= v => u \in Path(v)}
<1>0. Len(tree) \in Nat /\ Nodes = 1..Len(tree)
  BY IdNumbers
<1>1. 0 \in Fine
  BY <1>0, PathIs
<1>2. ASSUME NEW i \in Nodes, tree[i].parent \in Fine PROVE i \in Fine
  <2> DEFINE p == tree[i].parent
  <2>1. Path(i) = {i} \cup Path(p) /\ i \in 0..Len(tree) /\ p \in 0..Len(tree) /\ p < i /\ i \in Nat
    <3>1. p \in Nat /\ p <= Len(tree) /\ p < i /\ i \in Nat
      BY IdNumbers
    <3> QED
      BY <1>0, <3>1, PathIs
  <2>2. \A u, v \in Path(p) : u <= v => u \in Path(v)
    BY <1>2
  <2>3. \A v \in Path(p) : v < i /\ v \in Nat
    <3> TAKE v \in Path(p)
    <3>1. v \in Nodes /\ v <= p
      BY <2>1, PathUp
    <3> HIDE DEF p
    <3> QED
      BY <1>0, <2>1, <3>1
  <2> HIDE DEF p
  <2>4. ASSUME NEW u \in Path(i), NEW v \in Path(i), u <= v PROVE u \in Path(v)
    <3>1. CASE v = i
      BY <3>1
    <3>2. CASE v # i
      <4>1. v \in Path(p) /\ u # i
        BY <2>1, <2>3, <2>4, <3>2
      <4> QED
        BY <2>1, <2>2, <2>4, <4>1
    <3> QED
      BY <3>1, <3>2
  <2> QED
    BY <2>1, <2>4
<1> HIDE DEF Fine
<1>3. 0..Len(tree) \subseteq Fine
  BY <1>1, <1>2, NodeInduction
<1> QED
  BY <1>3 DEF Fine

(* Two nodes are in order if none that v lies in comes before its sibling  *)
(* that u lies in.                                                         *)
InOrder(u, v) ==
    \A x \in Path(v), y \in Path(u) : tree[x].parent = tree[y].parent => ~Precedes(x, y)

LEMMA PrecedesNot == ASSUME TreeIsFile, NEW x \in Nodes PROVE ~Precedes(x, x)
<1>1. tree[x].y \in Nat /\ x \in Nat
  <2>1. tree[x] \in TreeNode /\ x \in Nat
    BY IdNumbers
  <2> QED
    BY <2>1 DEF TreeNode
<1> QED
  BY <1>1 DEF Precedes

LEMMA InOrderOnce ==
    ASSUME TreeIsFile, NEW z \in Nodes
    PROVE  InOrder(z, z)
<1>1. z \in 0..Len(tree)
  BY IdNumbers
<1>2. ASSUME NEW x \in Path(z), NEW y \in Path(z), tree[x].parent = tree[y].parent
      PROVE  ~Precedes(x, y)
  <2>1. x = y /\ x \in Nodes
    BY <1>1, <1>2, PathOnce, PathUp
  <2> QED
    BY <2>1, PrecedesNot
<1> QED
  BY <1>2 DEF InOrder

(* The order of two nodes is that of the siblings where their ways part.   *)
LEMMA SplitInOrder ==
    ASSUME TreeIsFile, NEW u \in Nodes, NEW v \in Nodes, NEW a \in Path(u), NEW b \in Path(v),
           tree[a].parent = tree[b].parent, a # b, ~Precedes(b, a)
    PROVE  InOrder(u, v)
<1> SUFFICES ASSUME NEW x \in Path(v), NEW y \in Path(u), tree[x].parent = tree[y].parent
             PROVE  ~Precedes(x, y)
  BY DEF InOrder
<1>1. /\ u \in 0..Len(tree) /\ v \in 0..Len(tree) /\ Len(tree) \in Nat
      /\ Nodes = 1..Len(tree)
  BY IdNumbers
<1>2. /\ a \in Nodes /\ b \in Nodes /\ x \in Nodes /\ y \in Nodes
      /\ Path(a) \subseteq Path(u) /\ Path(b) \subseteq Path(v)
  BY <1>1, PathUp
<1>3. \A z \in Nodes : z \in Nat /\ z \in 0..Len(tree) /\ Path(z) = {z} \cup Path(tree[z].parent)
  BY <1>1, PathIs
<1>4. x = y => ~Precedes(x, y)
  BY <1>2, PrecedesNot
<1>5. CASE x = b
  <2>1. y = a
    BY <1>1, <1>5, PathOnce
  <2> QED
    BY <1>5, <2>1
<1>6. CASE y = a
  <2>1. x = b
    BY <1>1, <1>6, PathOnce
  <2> QED
    BY <1>6, <2>1
<1>7. CASE x < b
  <2>1. x \in Path(b)
    BY <1>1, <1>2, <1>3, <1>7, PathChain
  <2>2. x \in Path(tree[a].parent)
    BY <1>2, <1>3, <1>7, <2>1
  <2>3. x \in Path(u)
    BY <1>2, <1>3, <2>2
  <2> QED
    BY <1>1, <1>4, <2>3, PathOnce
<1>8. CASE y < a
  <2>1. y \in Path(a)
    BY <1>1, <1>2, <1>3, <1>8, PathChain
  <2>2. y \in Path(tree[b].parent)
    BY <1>2, <1>3, <1>8, <2>1
  <2>3. y \in Path(v)
    BY <1>2, <1>3, <2>2
  <2> QED
    BY <1>1, <1>4, <2>3, PathOnce
<1>9. CASE x > b /\ y > a
  <2>1. b \in Path(x) /\ a \in Path(y)
    BY <1>1, <1>2, <1>3, <1>9, PathChain
  <2>2. b \in Path(tree[x].parent) /\ a \in Path(tree[x].parent)
    BY <1>2, <1>3, <1>9, <2>1
  <2>3. a \in Path(x)
    BY <1>2, <1>3, <2>2
  <2> QED
    BY <1>2, <1>3, <2>1, <2>3, PathOnce
<1> QED
  BY <1>2, <1>3, <1>5, <1>6, <1>7, <1>8, <1>9

-----------------------------------------------------------------------------
(* The lines of a text that flowables have.                                *)
Lined(s) == IsList(s) /\ \A f \in Range(s) : f.lines \in Nat
LinesOf(f, i) == IF f.id = i THEN f.lines ELSE 0
LineLoop(g, s, i) ==
    /\ g \in [0..Len(s) -> Nat]
    /\ g[0] = 0 /\ LinesDrawn(s, i) = g[Len(s)]
    /\ \A k \in 1..Len(s) : g[k] = IF s[k].id = i THEN g[k - 1] + s[k].lines ELSE g[k - 1]

LEMMA LinesIs ==
    ASSUME NEW s, Lined(s), NEW i
    PROVE  \E g : LineLoop(g, s, i)
<1> DEFINE n     == Len(s)
           turn  == [k \in Nat \ {0} |-> [m \in Nat |-> IF k \in 1..n /\ s[k].id = i THEN m + s[k].lines ELSE m]]
           Is(f) == f = [k \in 0..n |->
                          IF k = 0 THEN 0
                          ELSE IF s[k].id = i THEN f[k - 1] + s[k].lines ELSE f[k - 1]]
           out   == CHOOSE f : Is(f)
<1>1. n \in Nat /\ \A k \in 1..n : s[k].lines \in Nat
  BY ListPlaces DEF Lined, Places
<1>2. turn \in [Nat \ {0} -> [Nat -> Nat]]
  BY <1>1
<1>3. PICK g \in [0..n -> Nat] : IsLoop(g, n, 0, turn)
  <2> HIDE DEF turn, n
  <2> QED
    BY <1>1, <1>2, LoopExists
<1>4. \A k \in 1..n : g[k] = IF s[k].id = i THEN g[k - 1] + s[k].lines ELSE g[k - 1]
  <2> TAKE k \in 1..n
  <2>1. k \in Nat \ {0} /\ k - 1 \in 0..n
    BY <1>1
  <2>2. g[k - 1] \in Nat
    BY <2>1
  <2>3. g[k] = turn[k][g[k - 1]]
    BY <1>3 DEF IsLoop
  <2> QED
    BY <2>1, <2>2, <2>3
<1>5. g[0] = 0
  BY <1>3 DEF IsLoop
<1>6. Is(g)
  <2>1. \A k \in 0..n : k # 0 => k \in 1..n
    <3> HIDE DEF n
    <3> QED
      BY <1>1
  <2> QED
    BY <1>4, <1>5, <2>1, Zenon
<1>7. Is(out)
  <2> HIDE DEF Is
  <2> QED
    BY <1>6
<1>8. PICK f : Is(f) /\ LinesDrawn(s, i) = f[n]
  <2>1. LinesDrawn(s, i) = out[n]
    BY DEF LinesDrawn
  <2> HIDE DEF Is, n
  <2> QED
    BY <1>7, <2>1
<1>9. f = [k \in 0..n |->
            IF k = 0 THEN 0
            ELSE IF s[k].id = i THEN f[k - 1] + s[k].lines ELSE f[k - 1]]
  BY <1>8
<1>10. f[0] = 0 /\ \A k \in 1..n : f[k] = IF s[k].id = i THEN f[k - 1] + s[k].lines ELSE f[k - 1]
  <2>1. 0 \in 0..n /\ \A k \in 1..n : k \in 0..n /\ k # 0
    BY <1>1
  <2> HIDE DEF n
  <2> QED
    BY <1>9, <2>1
<1>11. \A k \in 1..n : f[k - 1] = g[k - 1] => f[k] = g[k]
  <2> HIDE DEF n
  <2> QED
    BY <1>4, <1>10
<1>12. f[n] = g[n]
  <2>1. n \in Nat /\ f[0] = g[0]
    BY <1>1, <1>5, <1>10
  <2> HIDE DEF n
  <2> QED
    BY <1>11, <2>1, StepsAgree
<1> QED
  BY <1>4, <1>5, <1>8, <1>12 DEF LineLoop

LEMMA LinesNone ==
    \A i : LinesDrawn(<<>>, i) = 0 /\ Lined(<<>>)
<1> TAKE i
<1>1. Len(<<>>) = 0 /\ Lined(<<>>)
  BY ListSmall DEF Lined
<1>2. PICK g : LineLoop(g, <<>>, i)
  BY <1>1, LinesIs
<1> QED
  BY <1>1, <1>2 DEF LineLoop

LEMMA LinesAppend ==
    ASSUME NEW S, NEW s \in Seq(S), Lined(s), NEW e \in S, e.lines \in Nat, NEW i
    PROVE  /\ LinesDrawn(Append(s, e), i) = LinesDrawn(s, i) + LinesOf(e, i)
           /\ LinesDrawn(s, i) \in Nat /\ Lined(Append(s, e))
<1> DEFINE n == Len(s)
           t == Append(s, e)
<1>1. /\ n \in Nat /\ t \in Seq(S) /\ Len(t) = n + 1 /\ t[n + 1] = e
      /\ \A k \in 1..n : t[k] = s[k]
  BY AppendProperties, LenProperties
<1>2. Range(t) = Range(s) \cup {e}
  BY RangeAppend
<1> HIDE DEF t
<1>3. Lined(t)
  BY <1>1, <1>2 DEF Lined, IsList
<1>4. PICK g : LineLoop(g, s, i)
  BY LinesIs
<1>5. PICK h : LineLoop(h, t, i)
  BY <1>3, LinesIs
<1>6. \A k \in 1..n : g[k - 1] = h[k - 1] => g[k] = h[k]
  <2> TAKE k \in 1..n
  <2>1. k \in 1..Len(t) /\ t[k] = s[k]
    BY <1>1
  <2>2. g[k] = IF s[k].id = i THEN g[k - 1] + s[k].lines ELSE g[k - 1]
    BY <1>4 DEF LineLoop
  <2>3. h[k] = IF t[k].id = i THEN h[k - 1] + t[k].lines ELSE h[k - 1]
    BY <1>5, <2>1 DEF LineLoop
  <2> HIDE DEF n
  <2> QED
    BY <2>1, <2>2, <2>3
<1>7. g[n] = h[n]
  <2>1. g[0] = h[0] /\ n \in Nat
    BY <1>1, <1>4, <1>5 DEF LineLoop
  <2> HIDE DEF n
  <2> QED
    BY <1>6, <2>1, StepsAgree
<1>8. h[n + 1] = IF t[n + 1].id = i THEN h[n] + t[n + 1].lines ELSE h[n]
  <2>1. n + 1 \in 1..Len(t) /\ (n + 1) - 1 = n
    BY <1>1
  <2> QED
    BY <1>5, <2>1 DEF LineLoop
<1>9. g[n] \in Nat /\ LinesDrawn(s, i) = g[n] /\ LinesDrawn(t, i) = h[n + 1]
  <2>1. n \in 0..n
    BY <1>1
  <2>2. g \in [0..n -> Nat] /\ LinesDrawn(s, i) = g[n]
    BY <1>4 DEF LineLoop
  <2>3. LinesDrawn(t, i) = h[n + 1]
    BY <1>1, <1>5 DEF LineLoop
  <2> QED
    BY <2>1, <2>2, <2>3
<1> HIDE DEF n
<1>10. LinesDrawn(t, i) = LinesDrawn(s, i) + LinesOf(e, i)
  BY <1>1, <1>7, <1>8, <1>9 DEF LinesOf
<1> QED
  BY <1>3, <1>9, <1>10 DEF t

LEMMA LinesOne ==
    ASSUME NEW f, f.lines \in Nat, NEW i
    PROVE  Lined(<<f>>) /\ LinesDrawn(<<f>>, i) = LinesOf(f, i)
<1>1. <<>> \in Seq({f}) /\ Append(<<>>, f) = <<f>>
  BY EmptySeq
<1>2. LinesDrawn(<<>>, i) = 0 /\ Lined(<<>>) /\ LinesOf(f, i) \in Nat
  BY LinesNone DEF LinesOf
<1>3. LinesDrawn(Append(<<>>, f), i) = 0 + LinesOf(f, i) /\ Lined(Append(<<>>, f))
  BY <1>1, <1>2, LinesAppend
<1> QED
  BY <1>1, <1>2, <1>3

LEMMA LinesFollow ==
    ASSUME NEW s, NEW t, Lined(s), Lined(t)
    PROVE  Lined(s \o t) /\ \A i : /\ LinesDrawn(s \o t, i) = LinesDrawn(s, i) + LinesDrawn(t, i)
                                   /\ LinesDrawn(s, i) \in Nat /\ LinesDrawn(t, i) \in Nat
<1>1. PICK S : s \in Seq(S)
  BY DEF Lined, IsList
<1>2. PICK T : t \in Seq(T)
  BY DEF Lined, IsList
<1> DEFINE B == S \cup T
           Sum(u, i) == LinesDrawn(s \o u, i) = LinesDrawn(s, i) + LinesDrawn(u, i) /\ LinesDrawn(u, i) \in Nat
           Summed == {u \in Seq(B) : Lined(u) => Lined(s \o u) /\ \A i : Sum(u, i)}
<1>3. s \in Seq(B) /\ t \in Seq(B)
  <2>1. S \subseteq B /\ T \subseteq B
    OBVIOUS
  <2> HIDE DEF B
  <2> QED
    BY <1>1, <1>2, <2>1, WiderList
<1> HIDE DEF B
<1>4. \A i : LinesDrawn(s, i) \in Nat
  <2> TAKE i
  <2>1. PICK g : LineLoop(g, s, i)
    BY LinesIs
  <2>2. Len(s) \in Nat
    BY <1>3, LenProperties
  <2> QED
    BY <2>1, <2>2 DEF LineLoop
<1>5. <<>> \in Summed
  <2>1. s \o <<>> = s /\ <<>> \in Seq(B)
    BY <1>3, ConcatEmptySeq, EmptySeq
  <2>2. \A i : LinesDrawn(<<>>, i) = 0
    BY LinesNone
  <2>3. \A i : Sum(<<>>, i)
    BY <1>4, <2>1, <2>2
  <2> QED
    BY <2>1, <2>3
<1>6. ASSUME NEW u \in Seq(B), NEW e \in B, u \in Summed PROVE Append(u, e) \in Summed
  <2> DEFINE v == Append(u, e)
             w == s \o u
  <2>1. v \in Seq(B) /\ Range(v) = Range(u) \cup {e}
    BY RangeAppend, AppendProperties
  <2>2. s \o v = Append(w, e) /\ w \in Seq(B)
    BY <1>3
  <2> SUFFICES ASSUME Lined(v) PROVE Lined(s \o v) /\ \A i : Sum(v, i)
    BY <2>1
  <2>3. Lined(u) /\ e.lines \in Nat
    BY <2>1 DEF Lined, IsList
  <2>4. Lined(w) /\ \A i : Sum(u, i)
    BY <1>6, <2>3
  <2> HIDE DEF w
  <2>5. Lined(s \o v) /\ \A i : LinesDrawn(s \o v, i) = LinesDrawn(w, i) + LinesOf(e, i)
    BY <2>2, <2>3, <2>4, LinesAppend
  <2>6. \A i : LinesDrawn(v, i) = LinesDrawn(u, i) + LinesOf(e, i)
    BY <2>3, LinesAppend
  <2>7. \A i : LinesOf(e, i) \in Nat
    BY <2>3 DEF LinesOf
  <2>8. \A i : LinesDrawn(w, i) = LinesDrawn(s, i) + LinesDrawn(u, i) /\ LinesDrawn(u, i) \in Nat
    BY <2>4 DEF w
  <2> HIDE DEF v
  <2>9. \A i : Sum(v, i)
    BY <1>4, <2>5, <2>6, <2>7, <2>8
  <2> QED
    BY <2>5, <2>9
<1>7. Seq(B) \subseteq Summed
  <2> HIDE DEF Summed
  <2> QED
    BY <1>5, <1>6, ListInduction
<1>8. Lined(s \o t) /\ \A i : Sum(t, i)
  BY <1>3, <1>7
<1> QED
  BY <1>4, <1>8

LEMMA LinesWithout ==
    ASSUME NEW s, Lined(s), NEW i, \A f \in Range(s) : f.id # i
    PROVE  LinesDrawn(s, i) = 0
<1>1. PICK g : LineLoop(g, s, i)
  BY LinesIs
<1> DEFINE n == Len(s)
           P == {k \in 0..n : g[k] = 0}
<1>2. n \in Nat /\ \A k \in 1..n : s[k].id # i
  BY ListPlaces DEF Lined, Places
<1>3. 0 \in P
  BY <1>1, <1>2 DEF LineLoop
<1>4. ASSUME NEW k \in 1..n, k - 1 \in P PROVE k \in P
  <2>1. g[k] = g[k - 1]
    BY <1>1, <1>2 DEF LineLoop
  <2>2. k \in 0..n
    BY <1>2
  <2> QED
    BY <1>4, <2>1, <2>2
<1> HIDE DEF P
<1>5. n \in P
  <2> HIDE DEF n
  <2> QED
    BY <1>2, <1>3, <1>4, UpTo
<1> QED
  BY <1>1, <1>5 DEF LineLoop, P

LEMMA LinesOnce ==
    ASSUME NEW s, Lined(s), NEW p \in DOMAIN s, \A k \in DOMAIN s : s[k].id = s[p].id => k = p
    PROVE  LinesDrawn(s, s[p].id) = s[p].lines
<1> DEFINE i == s[p].id
           m == s[p].lines
<1>1. PICK g : LineLoop(g, s, i)
  BY LinesIs
<1> DEFINE n == Len(s)
           P == {k \in 0..n : g[k] = IF k < p THEN 0 ELSE m}
<1>2. n \in Nat /\ p \in 1..n /\ (\A k \in 1..n : s[k].id = i => k = p) /\ m \in Nat
  BY ListPlaces DEF Lined, Places
<1>3. 0 \in P
  <2>1. g[0] = 0 /\ 0 \in 0..n /\ 0 < p
    BY <1>1, <1>2 DEF LineLoop
  <2> QED
    BY <2>1
<1>4. ASSUME NEW k \in 1..n, k - 1 \in P PROVE k \in P
  <2>1. g[k] = IF s[k].id = i THEN g[k - 1] + s[k].lines ELSE g[k - 1]
    BY <1>1 DEF LineLoop
  <2>2. k \in 0..n /\ k \in Nat /\ g[k - 1] = IF k - 1 < p THEN 0 ELSE m
    BY <1>2, <1>4
  <2>3. CASE k = p
    <3>1. g[k] = 0 + m /\ ~(k < p)
      BY <1>2, <2>1, <2>2, <2>3
    <3> QED
      BY <1>2, <2>2, <3>1
  <2>4. CASE k # p
    <3>1. g[k] = g[k - 1] /\ (k - 1 < p <=> k < p)
      BY <1>2, <2>1, <2>2, <2>4
    <3> QED
      BY <2>2, <3>1
  <2> QED
    BY <2>3, <2>4
<1>5. n \in P
  <2> HIDE DEF n, P
  <2> QED
    BY <1>2, <1>3, <1>4, UpTo
<1>6. g[n] = m
  BY <1>2, <1>5
<1> QED
  BY <1>1, <1>6 DEF LineLoop

(* A list is what is in front of a member, the member, and the rest.       *)
LEMMA ListParts ==
    ASSUME NEW s, IsList(s), NEW i \in DOMAIN s
    PROVE  s = (SubSeq(s, 1, i - 1) \o <<s[i]>>) \o SubSeq(s, i + 1, Len(s))
<1> DEFINE n == Len(s)
           a == SubSeq(s, 1, i - 1)
           b == <<s[i]>>
           z == SubSeq(s, i + 1, n)
<1>1. PICK S : s \in Seq(S)
  BY DEF IsList
<1>2. n \in Nat /\ i \in 1..n
  BY <1>1, LenProperties
<1>3. IsList(a) /\ IsList(z) /\ IsList(b)
  BY ListPart, ListSmall
<1>4. /\ Len(a) = i - 1 /\ \A j \in 1..(i - 1) : a[j] = s[j]
      /\ Len(z) = n - i /\ \A j \in 1..(n - i) : z[j] = s[i + j]
  <2>1. /\ 1 \in 1..(n + 1) /\ i - 1 \in (1 - 1)..n
        /\ i + 1 \in 1..(n + 1) /\ n \in ((i + 1) - 1)..n
    BY <1>2
  <2>2. Len(a) = (i - 1) - 1 + 1 /\ \A j \in 1..((i - 1) - 1 + 1) : a[j] = s[1 + j - 1]
    BY <1>1, <2>1, SubSeqProperties
  <2>3. Len(z) = n - (i + 1) + 1 /\ \A j \in 1..(n - (i + 1) + 1) : z[j] = s[(i + 1) + j - 1]
    BY <1>1, <2>1, SubSeqProperties
  <2> HIDE DEF a, z, n
  <2> QED
    BY <1>2, <2>2, <2>3
<1>5. Len(b) = 1 /\ b[1] = s[i]
  OBVIOUS
<1> HIDE DEF a, b, z, n
<1> DEFINE c == a \o b
           u == c \o z
<1>6. IsList(c) /\ Len(c) = i /\ \A j \in 1..i : c[j] = s[j]
  <2>1. /\ IsList(c) /\ Len(c) = Len(a) + Len(b)
        /\ \A j \in 1..(Len(a) + Len(b)) : c[j] = IF j <= Len(a) THEN a[j] ELSE b[j - Len(a)]
    BY <1>3, ListFollows DEF Follows
  <2>2. Len(a) = i - 1 /\ Len(b) = 1 /\ (i - 1) + 1 = i
    BY <1>2, <1>4, <1>5
  <2> HIDE DEF c
  <2>3. ASSUME NEW j \in 1..i PROVE c[j] = s[j]
    <3>1. CASE j <= i - 1
      BY <1>2, <1>4, <2>1, <2>2, <3>1
    <3>2. CASE j = i
      <4>1. ~(i <= i - 1) /\ i - (i - 1) = 1 /\ i \in 1..i
        BY <1>2
      <4> QED
        BY <1>5, <2>1, <2>2, <3>2, <4>1
    <3> QED
      BY <1>2, <3>1, <3>2
  <2> QED
    BY <1>2, <2>1, <2>2, <2>3
<1> HIDE DEF c
<1>7. IsList(u) /\ Len(u) = n /\ \A j \in 1..n : u[j] = s[j]
  <2>1. /\ IsList(u) /\ Len(u) = Len(c) + Len(z)
        /\ \A j \in 1..(Len(c) + Len(z)) : u[j] = IF j <= Len(c) THEN c[j] ELSE z[j - Len(c)]
    BY <1>3, <1>6, ListFollows DEF Follows
  <2>2. Len(c) = i /\ Len(z) = n - i /\ i + (n - i) = n
    BY <1>2, <1>4, <1>6
  <2> HIDE DEF u
  <2>3. ASSUME NEW j \in 1..n PROVE u[j] = s[j]
    <3>1. CASE j <= i
      BY <1>2, <1>6, <2>1, <2>2, <3>1
    <3>2. CASE j > i
      <4>1. j - i \in 1..(n - i) /\ i + (j - i) = j /\ ~(j <= i)
        BY <1>2, <3>2
      <4> QED
        BY <1>4, <2>1, <2>2, <4>1
    <3> QED
      BY <1>2, <3>1, <3>2
  <2> QED
    BY <2>1, <2>2, <2>3
<1> HIDE DEF u
<1>8. PICK T : u \in Seq(T)
  BY <1>7 DEF IsList
<1>9. u = s
  <2>1. s = [j \in 1..n |-> s[j]] /\ u = [j \in 1..n |-> u[j]]
    BY <1>1, <1>7, <1>8, LenProperties DEF n
  <2> QED
    BY <1>7, <2>1
<1> QED
  BY <1>9 DEF u, c, a, b, z, n

LEMMA TwoParts ==
    ASSUME NEW a, NEW b
    PROVE  <<a, b>> = <<a>> \o <<b>>
<1> DEFINE u == <<a>> \o <<b>>
<1>1. IsList(<<a>>) /\ IsList(<<b>>)
  BY ListSmall
<1>2. Len(<<a>>) = 1 /\ Len(<<b>>) = 1 /\ <<a>>[1] = a /\ <<b>>[1] = b
  OBVIOUS
<1>3. IsList(u) /\ Len(u) = 1 + 1 /\ \A i \in 1..(1 + 1) : u[i] = IF i <= 1 THEN <<a>>[i] ELSE <<b>>[i - 1]
  BY <1>1, <1>2, ListFollows DEF Follows
<1> HIDE DEF u
<1>4. Len(u) = 2 /\ u[1] = a /\ u[2] = b
  BY <1>2, <1>3
<1>5. PICK S : u \in Seq(S)
  BY <1>3 DEF IsList
<1>6. u = <<u[1], u[2]>>
  <2>1. u = [j \in 1..2 |-> u[j]]
    BY <1>4, <1>5, LenProperties
  <2> QED
    BY <2>1
<1> QED
  BY <1>4, <1>6 DEF u

(* Cutting a member in two keeps the lines.                                *)
LEMMA LinesCut ==
    ASSUME NEW s, Lined(s), NEW i \in DOMAIN s, NEW one, NEW two, one.lines \in Nat, two.lines \in Nat,
           one.id = s[i].id, two.id = s[i].id, one.lines + two.lines = s[i].lines
    PROVE  /\ Lined(Cut(s, i, one, two))
           /\ \A t : LinesDrawn(Cut(s, i, one, two), t) = LinesDrawn(s, t)
<1> DEFINE a == SubSeq(s, 1, i - 1)
           z == SubSeq(s, i + 1, Len(s))
           f == s[i]
<1>1. s = (a \o <<f>>) \o z /\ Cut(s, i, one, two) = (a \o <<one, two>>) \o z
  BY ListParts DEF Cut, Lined
<1>2. Lined(a) /\ Lined(z) /\ f.lines \in Nat
  <2>1. /\ IsList(a) /\ Range(a) \subseteq Range(s) /\ IsList(z) /\ Range(z) \subseteq Range(s)
        /\ f \in Range(s)
    BY ListPart DEF Lined
  <2> QED
    BY <2>1 DEF Lined
<1>3. one.id = f.id /\ two.id = f.id /\ one.lines + two.lines = f.lines
  OBVIOUS
<1>4. <<one, two>> = <<one>> \o <<two>>
  BY TwoParts
<1> HIDE DEF a, z, f
<1>5. Lined(<<f>>) /\ Lined(<<one>>) /\ Lined(<<two>>) /\ Lined(<<one, two>>)
  <2>1. Lined(<<f>>) /\ Lined(<<one>>) /\ Lined(<<two>>)
    BY <1>2, LinesOne
  <2> QED
    BY <1>4, <2>1, LinesFollow
<1> DEFINE b == a \o <<f>>
           c == a \o <<one, two>>
<1>6. Lined(b) /\ Lined(c)
  BY <1>2, <1>5, LinesFollow
<1>7. Lined(c \o z)
  BY <1>2, <1>6, LinesFollow
<1>8. ASSUME NEW t PROVE LinesDrawn(c \o z, t) = LinesDrawn(b \o z, t)
  <2>1. /\ LinesDrawn(b \o z, t) = LinesDrawn(b, t) + LinesDrawn(z, t)
        /\ LinesDrawn(c \o z, t) = LinesDrawn(c, t) + LinesDrawn(z, t)
    BY <1>2, <1>6, LinesFollow
  <2>2. /\ LinesDrawn(b, t) = LinesDrawn(a, t) + LinesDrawn(<<f>>, t)
        /\ LinesDrawn(c, t) = LinesDrawn(a, t) + LinesDrawn(<<one, two>>, t)
    BY <1>2, <1>5, LinesFollow
  <2>3. LinesDrawn(<<one, two>>, t) = LinesDrawn(<<one>>, t) + LinesDrawn(<<two>>, t)
    <3>1. LinesDrawn(<<one>> \o <<two>>, t) = LinesDrawn(<<one>>, t) + LinesDrawn(<<two>>, t)
      BY <1>5, LinesFollow
    <3> QED
      BY <1>4, <3>1
  <2>4. /\ LinesDrawn(<<f>>, t) = LinesOf(f, t) /\ LinesDrawn(<<one>>, t) = LinesOf(one, t)
        /\ LinesDrawn(<<two>>, t) = LinesOf(two, t)
    BY <1>2, LinesOne
  <2>5. LinesOf(one, t) + LinesOf(two, t) = LinesOf(f, t)
    BY <1>3 DEF LinesOf
  <2> QED
    BY <2>1, <2>2, <2>3, <2>4, <2>5
<1> QED
  BY <1>1, <1>7, <1>8

-----------------------------------------------------------------------------
(* What the conversion leaves: the lists of an element are in the order of *)
(* the nodes, every kept node is in the list of its place, and no node is  *)
(* left out that fits below a kept one.                                    *)
Rises(seq) == \A i, j \in 1..Len(seq) : i < j => Maker(seq[i]) < Maker(seq[j])
ListsRise  == \A x \in Ids : Rises(children[x]) /\ Rises(contents[x])
InItsList(i) ==
    /\ Place(i) = "children" => i \in Range(children[tree[i].parent])
    /\ Place(i) = "contents" => i \in Range(contents[tree[i].parent])
    /\ Place(i) = "wrapper"  => /\ Wrapper(i) \in Range(children[tree[i].parent])
                                /\ i \in Range(contents[Wrapper(i)])
AllListed == \A i \in kept \ {0} : InItsList(i)
KeptAll   == \A i \in 1..(at - 1) : tree[i].parent \in kept /\ Fitting(i) => i \in kept
HeldInContainers ==
    \A i \in Nodes : tree[i].parent > 0 => tree[tree[i].parent].kind \in Containers \cup {"PageSeries", "Unknown"}
FullInv ==
    /\ ListsRise /\ AllListed /\ KeptAll /\ HeldInContainers
    /\ doing # "convert" => at = Len(tree) + 1

LEMMA RisesAppend ==
    ASSUME NEW S, NEW seq \in Seq(S), NEW e \in S, Rises(seq), \A y \in Range(seq) : Maker(y) < Maker(e)
    PROVE  Rises(Append(seq, e))
<1> DEFINE n == Len(seq)
           t == Append(seq, e)
<1>1. n \in Nat /\ Len(t) = n + 1 /\ t[n + 1] = e /\ \A k \in 1..n : t[k] = seq[k]
  BY AppendProperties, LenProperties
<1>2. \A k \in 1..n : seq[k] \in Range(seq)
  BY RangeOf
<1> HIDE DEF t
<1>3. ASSUME NEW i \in 1..(n + 1), NEW j \in 1..(n + 1), i < j PROVE Maker(t[i]) < Maker(t[j])
  <2>1. i \in 1..n /\ t[i] = seq[i]
    BY <1>1, <1>3
  <2>2. CASE j = n + 1
    BY <1>1, <1>2, <2>1, <2>2
  <2>3. CASE j # n + 1
    <3>1. j \in 1..n /\ t[j] = seq[j]
      BY <1>1, <2>3
    <3> QED
      BY <1>3, <2>1, <3>1 DEF Rises
  <2> QED
    BY <2>2, <2>3
<1> QED
  BY <1>1, <1>3 DEF t, Rises

(* A list with a member more of a node that comes after those of its own.  *)
Risen(longer, table) ==
    /\ \A z \in Ids : Rises(longer[z])
    /\ \A z \in Ids : Range(table[z]) \subseteq Range(longer[z])

LEMMA AddedRises ==
    ASSUME NEW table \in [Ids -> Seq(Ids)], \A z \in Ids : Rises(table[z]), NEW x \in Ids, NEW y \in Ids,
           \A z \in Range(table[x]) : Maker(z) < Maker(y)
    PROVE  Risen(Added(table, x, y), table) /\ y \in Range(Added(table, x, y)[x])
<1> DEFINE new == Append(table[x], y)
<1>1. table[x] \in Seq(Ids)
  OBVIOUS
<1>2. Range(new) = Range(table[x]) \cup {y}
  BY <1>1, RangeAppend
<1>3. Rises(new)
  BY <1>1, RisesAppend
<1> HIDE DEF new
<1>4. Added(table, x, y) = [table EXCEPT ![x] = new]
  BY DEF Added, new
<1> QED
  BY <1>2, <1>3, <1>4 DEF Risen

LEMMA FullInit == TreeInit => FullInv
<1> SUFFICES ASSUME TreeInit PROVE FullInv
  OBVIOUS
<1>1. ConvInv
  BY ConvInit
<1>2. HeldInContainers
  <2>1. PICK file \in Files : tree = file.tree
    BY DEF TreeInit
  <2> QED
    BY <2>1, NodesInOrder DEF HeldInContainers, Nodes
<1>3. at = 1 /\ kept = {0} /\ doing = "convert"
      /\ children = [x \in Ids |-> <<>>] /\ contents = [x \in Ids |-> <<>>]
  BY DEF TreeInit
<1>4. \A x \in Ids : children[x] = <<>> /\ contents[x] = <<>>
  BY <1>3
<1>5. Rises(<<>>)
  <2>1. Len(<<>>) = 0
    OBVIOUS
  <2> QED
    BY <2>1 DEF Rises
<1>6. ListsRise
  BY <1>4, <1>5 DEF ListsRise
<1>7. AllListed /\ KeptAll
  BY <1>3 DEF AllListed, KeptAll
<1> QED
  BY <1>2, <1>3, <1>6, <1>7 DEF FullInv

LEMMA ConvertFills ==
    ASSUME ConvInv, FullInv, ConvertNode
    PROVE  FullInv'
<1>1. /\ at \in Nodes /\ Converts(at) /\ tree' = tree /\ doing = "convert" /\ doing' = doing
      /\ at' = at + 1 /\ kept' = kept \cup {at}
  BY DEF ConvertNode, Source
<1> DEFINE up == tree[at].parent
<1>2. /\ at \in Nat /\ at > 0 /\ at <= Len(tree) /\ at \in Ids /\ Wrapper(at) \in Ids /\ up \in Ids
      /\ Len(tree) \in Nat /\ Wrapper(at) > Len(tree) /\ Wrapper(at) - Len(tree) = at
  BY <1>1, IdNumbers DEF ConvInv
<1>3. Maker(at) = at /\ Maker(Wrapper(at)) = at
  BY <1>2 DEF Maker
<1>4. /\ children \in [Ids -> Seq(Ids)] /\ contents \in [Ids -> Seq(Ids)]
      /\ \A x \in Ids : \A y \in Range(children[x]) \cup Range(contents[x]) : Maker(y) < at
  <2>1. \A x \in Ids : \A y \in Range(children[x]) \cup Range(contents[x]) : Maker(y) \in kept
    BY DEF ConvInv, ChildrenStand, ContentsStand
  <2>2. \A k \in kept : k < at
    BY <1>2 DEF ConvInv
  <2> QED
    BY <2>1, <2>2 DEF ConvInv, ChildrenStand, ContentsStand
<1>5. (\A x \in Ids : Rises(children[x])) /\ (\A x \in Ids : Rises(contents[x]))
  BY DEF FullInv, ListsRise
<1>6. /\ Place(at) = "children" => children' = Added(children, up, at)
      /\ Place(at) = "wrapper" => children' = Added(children, up, Wrapper(at))
      /\ Place(at) \notin {"children", "wrapper"} => children' = children
      /\ Place(at) = "contents" => contents' = Added(contents, up, at)
      /\ Place(at) = "wrapper" => contents' = Added(contents, Wrapper(at), at)
      /\ Place(at) \notin {"contents", "wrapper"} => contents' = contents
  BY DEF ConvertNode
<1> HIDE DEF up
<1>7. /\ Risen(children', children)
      /\ Place(at) = "children" => at \in Range(children'[up])
      /\ Place(at) = "wrapper" => Wrapper(at) \in Range(children'[up])
  <2>1. CASE Place(at) = "children"
    BY <1>2, <1>3, <1>4, <1>5, <1>6, <2>1, AddedRises
  <2>2. CASE Place(at) = "wrapper"
    BY <1>2, <1>3, <1>4, <1>5, <1>6, <2>2, AddedRises
  <2>3. CASE Place(at) \notin {"children", "wrapper"}
    BY <1>5, <1>6, <2>3 DEF Risen
  <2> QED
    BY <2>1, <2>2, <2>3
<1>8. /\ Risen(contents', contents)
      /\ Place(at) = "contents" => at \in Range(contents'[up])
      /\ Place(at) = "wrapper" => at \in Range(contents'[Wrapper(at)])
  <2>1. CASE Place(at) = "contents"
    BY <1>2, <1>3, <1>4, <1>5, <1>6, <2>1, AddedRises
  <2>2. CASE Place(at) = "wrapper"
    BY <1>2, <1>3, <1>4, <1>5, <1>6, <2>2, AddedRises
  <2>3. CASE Place(at) \notin {"contents", "wrapper"}
    BY <1>5, <1>6, <2>3 DEF Risen
  <2> QED
    BY <2>1, <2>2, <2>3
<1>9. Ids' = Ids /\ Nodes' = Nodes /\ \A x : Maker(x)' = Maker(x) /\ Place(x)' = Place(x) /\ (Fitting(x)' <=> Fitting(x))
                 /\ Wrapper(x)' = Wrapper(x)
  <2>1. \A x : Wrapper(x)' = Wrapper(x)
    BY <1>1 DEF Wrapper
  <2> QED
    BY <1>1, <2>1, PlaceAgrees
<1>10. ListsRise'
  <2>1. \A x \in Ids : Rises(children'[x]) /\ Rises(contents'[x])
    BY <1>7, <1>8 DEF Risen
  <2> QED
    BY <1>9, <2>1 DEF ListsRise, Rises
<1>11. AllListed'
  <2>1. ASSUME NEW i, i = at PROVE InItsList(i)'
    <3>1. tree'[i].parent = up /\ Wrapper(i)' = Wrapper(at) /\ Place(i)' = Place(at)
      BY <1>1, <1>9, <2>1 DEF up
    <3> QED
      BY <1>7, <1>8, <2>1, <3>1 DEF InItsList
  <2>2. ASSUME NEW i \in kept \ {0} PROVE InItsList(i)'
    <3>1. InItsList(i) /\ i \in Nodes
      BY <1>1, <1>2, IdNumbers DEF FullInv, AllListed, ConvInv
    <3> DEFINE p == tree[i].parent
               q == Wrapper(i)
    <3>2. p \in Ids /\ q \in Ids
      BY <3>1, IdNumbers DEF ConvInv
    <3>3. tree'[i].parent = p /\ Wrapper(i)' = q /\ Place(i)' = Place(i)
      BY <1>1, <1>9
    <3>4. /\ Place(i) = "children" => i \in Range(children[p])
          /\ Place(i) = "contents" => i \in Range(contents[p])
          /\ Place(i) = "wrapper"  => q \in Range(children[p]) /\ i \in Range(contents[q])
      BY <3>1 DEF InItsList
    <3>5. /\ Range(children[p]) \subseteq Range(children'[p])
          /\ Range(contents[p]) \subseteq Range(contents'[p])
          /\ Range(contents[q]) \subseteq Range(contents'[q])
      BY <1>7, <1>8, <3>2 DEF Risen
    <3> HIDE DEF p, q
    <3> QED
      BY <3>3, <3>4, <3>5 DEF InItsList
  <2> QED
    BY <1>1, <2>1, <2>2 DEF AllListed
<1>12. KeptAll'
  <2>1. \A i \in 1..(at - 1) : tree[i].parent \in kept /\ Fitting(i) => i \in kept
    BY DEF FullInv, KeptAll
  <2>2. \A i \in 1..at : i = at \/ i \in 1..(at - 1)
    BY <1>2
  <2>3. \A i \in 1..at : tree[i].parent \in kept' /\ Fitting(i) => i \in kept'
    <3> TAKE i \in 1..at
    <3>1. i \in Nodes /\ i \in Nat /\ i <= at
      BY <1>2, IdNumbers DEF ConvInv
    <3>2. tree[i].parent # at
      <4>1. tree[i].parent < i /\ tree[i].parent \in Nat
        BY <3>1, IdNumbers DEF ConvInv
      <4> QED
        BY <1>2, <3>1, <4>1
    <3> QED
      BY <1>1, <2>1, <2>2, <3>2
  <2>4. at' - 1 = at
    BY <1>1, <1>2
  <2> QED
    BY <1>1, <1>9, <2>3, <2>4 DEF KeptAll
<1>13. HeldInContainers'
  BY <1>1, <1>9 DEF FullInv, HeldInContainers
<1> QED
  BY <1>1, <1>10, <1>11, <1>12, <1>13 DEF FullInv

LEMMA FullStays ==
    ASSUME ConvInv, FullInv, tree' = tree, kept' = kept, children' = children, contents' = contents,
           at' = at, doing' # "convert" => at = Len(tree) + 1
    PROVE  FullInv'
<1>1. Ids' = Ids /\ Nodes' = Nodes /\ \A x : Maker(x)' = Maker(x) /\ Place(x)' = Place(x) /\ (Fitting(x)' <=> Fitting(x))
                 /\ Wrapper(x)' = Wrapper(x)
  <2>1. \A x : Wrapper(x)' = Wrapper(x)
    BY DEF Wrapper
  <2> QED
    BY <2>1, PlaceAgrees
<1>2. ListsRise'
  BY <1>1 DEF FullInv, ListsRise, Rises
<1>3. AllListed'
  BY <1>1 DEF FullInv, AllListed, InItsList
<1>4. KeptAll' /\ HeldInContainers'
  BY <1>1 DEF FullInv, KeptAll, HeldInContainers
<1> QED
  BY <1>2, <1>3, <1>4 DEF FullInv

LEMMA DropFills ==
    ASSUME ConvInv, FullInv, DropNode
    PROVE  FullInv'
<1>1. /\ at \in Nodes /\ ~Converts(at) /\ tree' = tree /\ doing = "convert" /\ doing' = doing
      /\ at' = at + 1 /\ kept' = kept /\ children' = children /\ contents' = contents
  BY DEF DropNode, Source
<1>2. at \in Nat /\ at > 0
  BY <1>1, IdNumbers DEF ConvInv
<1>3. Ids' = Ids /\ Nodes' = Nodes /\ \A x : Maker(x)' = Maker(x) /\ Place(x)' = Place(x) /\ (Fitting(x)' <=> Fitting(x))
                 /\ Wrapper(x)' = Wrapper(x)
  <2>1. \A x : Wrapper(x)' = Wrapper(x)
    BY <1>1 DEF Wrapper
  <2> QED
    BY <1>1, <2>1, PlaceAgrees
<1>4. ListsRise'
  BY <1>1, <1>3 DEF FullInv, ListsRise, Rises
<1>5. AllListed'
  BY <1>1, <1>3 DEF FullInv, AllListed, InItsList
<1>6. HeldInContainers'
  BY <1>1, <1>3 DEF FullInv, HeldInContainers
<1>7. KeptAll'
  <2>1. \A i \in 1..(at - 1) : tree[i].parent \in kept /\ Fitting(i) => i \in kept
    BY DEF FullInv, KeptAll
  <2>2. \A i \in 1..at : i = at \/ i \in 1..(at - 1)
    BY <1>2
  <2>3. ~(tree[at].parent \in kept /\ Fitting(at))
    BY <1>1 DEF Converts, Fitting
  <2>4. at' - 1 = at
    BY <1>1, <1>2
  <2> QED
    BY <1>1, <1>3, <2>1, <2>2, <2>3, <2>4 DEF KeptAll
<1> QED
  BY <1>1, <1>4, <1>5, <1>6, <1>7 DEF FullInv

LEMMA FullKeeps ==
    ASSUME ConvInv, FullInv, DocumentNext
    PROVE  FullInv'
<1>1. CASE ConvertNode
  BY <1>1, ConvertFills
<1>2. CASE DropNode
  BY <1>2, DropFills
<1>3. ASSUME UNCHANGED <<tree, at, kept, children, contents>>, doing # "convert" \/ at \notin Nodes
      PROVE  FullInv'
  <2>1. at = Len(tree) + 1
    <3>1. CASE doing # "convert"
      BY <3>1 DEF FullInv
    <3>2. CASE at \notin Nodes
      <4>1. Len(tree) \in Nat /\ Nodes = 1..Len(tree) /\ at \in 1..(Len(tree) + 1)
        BY IdNumbers DEF ConvInv
      <4> QED
        BY <3>2, <4>1
    <3> QED
      BY <1>3, <3>1, <3>2
  <2> QED
    BY <1>3, <2>1, FullStays
<1>4. CASE UNCHANGED documentVars
  <2>1. UNCHANGED <<tree, at, kept, children, contents, doing>>
    BY <1>4 DEF documentVars, treeVars
  <2> QED
    BY <2>1, FullStays DEF FullInv
<1>5. CASE EndConvert \/ FillGroup
  BY <1>3, <1>5 DEF EndConvert, FillGroup, Source
<1>6. CASE DomNext
  <2>1. UNCHANGED <<tree, at, kept, children, contents>>
    BY <1>6 DEF DomNext, Load, InsertChild, RemoveChild, ClonePage, Save, StartStory, Rest, treeVars, Source
  <2>2. doing # "convert"
    BY <1>6 DEF DomNext, Load, InsertChild, RemoveChild, ClonePage, Save, StartStory, Edit
  <2> QED
    BY <1>3, <2>1, <2>2
<1>7. CASE StoryNext
  <2>0. StoryNext => UNCHANGED <<Source, at, kept, children, contents>>
    BY Zenon DEF StoryNext, RenderPage, RenderOutline, EndOutline, RenderElement, RenderText, RenderImage,
           RenderFile, RenderTable, PassElement, EndStory, Split, Build, treeVars, Source
  <2>1. UNCHANGED <<tree, at, kept, children, contents>>
    BY <1>7, <2>0 DEF Source
  <2>2. doing # "convert"
    BY <1>7, Zenon DEF StoryNext, RenderPage, RenderOutline, EndOutline, RenderElement, RenderText, RenderImage,
           RenderFile, RenderTable, PassElement, EndStory, Split, Build, Rendering
  <2> QED
    BY <1>3, <2>1, <2>2
<1> QED
  BY <1>1, <1>2, <1>4, <1>5, <1>6, <1>7 DEF DocumentNext, TreeNext

-----------------------------------------------------------------------------
(* Lists whose members stand for sets of texts, each of them in front of   *)
(* those of the members behind.                                            *)
AllIn(S, T)    == \A u \in S, v \in T : InOrder(u, v)
Ranked(seq, m) == \A i, j \in 1..Len(seq) : i < j => AllIn(m[seq[i]], m[seq[j]])

LEMMA RankedFollow ==
    ASSUME NEW s, NEW t, NEW m, IsList(s), IsList(t), Ranked(s, m), Ranked(t, m),
           \A x \in Range(s), y \in Range(t) : AllIn(m[x], m[y])
    PROVE  Ranked(s \o t, m)
<1> DEFINE u == s \o t
           a == Len(s)
           b == Len(t)
<1>1. /\ a \in Nat /\ b \in Nat /\ Len(u) = a + b
      /\ \A i \in 1..(a + b) : u[i] = IF i <= a THEN s[i] ELSE t[i - a]
  <2>1. Follows(s, t) /\ Places(s) /\ Places(t)
    BY ListFollows
  <2> QED
    BY <2>1 DEF Follows, Places
<1>2. (\A i \in 1..a : s[i] \in Range(s)) /\ (\A i \in 1..b : t[i] \in Range(t))
  <2>1. DOMAIN s = 1..a /\ DOMAIN t = 1..b
    BY ListPlaces DEF Places
  <2> QED
    BY <2>1 DEF Range
<1>3. /\ \A i, j \in 1..a : i < j => AllIn(m[s[i]], m[s[j]])
      /\ \A i, j \in 1..b : i < j => AllIn(m[t[i]], m[t[j]])
      /\ \A i \in 1..a, j \in 1..b : AllIn(m[s[i]], m[t[j]])
  BY <1>2 DEF Ranked
<1> HIDE DEF u, a, b
<1>4. ASSUME NEW i \in 1..(a + b), NEW j \in 1..(a + b), i < j PROVE AllIn(m[u[i]], m[u[j]])
  <2>1. CASE j <= a
    <3>1. i \in 1..a /\ j \in 1..a /\ u[i] = s[i] /\ u[j] = s[j]
      BY <1>1, <1>4, <2>1
    <3> QED
      BY <1>3, <1>4, <3>1
  <2>2. CASE i <= a /\ ~(j <= a)
    <3>1. i \in 1..a /\ j - a \in 1..b /\ u[i] = s[i] /\ u[j] = t[j - a]
      BY <1>1, <1>4, <2>2
    <3> QED
      BY <1>3, <3>1
  <2>3. CASE ~(i <= a)
    <3>1. i - a \in 1..b /\ j - a \in 1..b /\ i - a < j - a /\ u[i] = t[i - a] /\ u[j] = t[j - a]
      BY <1>1, <1>4, <2>3
    <3> QED
      BY <1>3, <3>1
  <2> QED
    BY <1>1, <1>4, <2>1, <2>2, <2>3
<1> QED
  BY <1>1, <1>4 DEF Ranked, u

LEMMA RankedSmall ==
    ASSUME NEW m
    PROVE  Ranked(<<>>, m) /\ \A e : Ranked(<<e>>, m)
<1>1. Len(<<>>) = 0 /\ \A e : Len(<<e>>) = 1
  OBVIOUS
<1>2. Ranked(<<>>, m)
  BY <1>1 DEF Ranked
<1>3. ASSUME NEW e PROVE Ranked(<<e>>, m)
  <2>1. \A i, j \in 1..1 : ~(i < j)
    OBVIOUS
  <2> QED
    BY <1>1, <2>1 DEF Ranked
<1> QED
  BY <1>2, <1>3

LEMMA RankedAppend ==
    ASSUME NEW S, NEW seq \in Seq(S), NEW e \in S, NEW m, Ranked(Append(seq, e), m)
    PROVE  Ranked(seq, m) /\ \A x \in Range(seq) : AllIn(m[x], m[e])
<1> DEFINE t == Append(seq, e)
           n == Len(seq)
<1>1. n \in Nat /\ Len(t) = n + 1 /\ t[n + 1] = e /\ \A k \in 1..n : t[k] = seq[k]
  BY AppendProperties, LenProperties
<1>2. \A x \in Range(seq) : \E k \in 1..n : x = seq[k]
  BY RangeOf
<1>3. \A i, j \in 1..(n + 1) : i < j => AllIn(m[t[i]], m[t[j]])
  BY <1>1 DEF Ranked
<1> HIDE DEF t, n
<1>4. \A i, j \in 1..n : i < j => AllIn(m[seq[i]], m[seq[j]])
  <2>1. \A i \in 1..n : i \in 1..(n + 1)
    BY <1>1
  <2> QED
    BY <1>1, <1>3, <2>1
<1>5. \A k \in 1..n : AllIn(m[seq[k]], m[e])
  <2>1. \A k \in 1..n : k \in 1..(n + 1) /\ n + 1 \in 1..(n + 1) /\ k < n + 1
    BY <1>1
  <2> QED
    BY <1>1, <1>3, <2>1
<1> QED
  BY <1>2, <1>4, <1>5 DEF Ranked, n

(* What is joined of members in line is in line.                           *)
LEMMA JoinedRanked ==
    ASSUME NEW S, NEW T, NEW list \in Seq(S), NEW f, NEW n, NEW m, Joins(T, list, f), Ranked(list, n),
           \A x \in Range(list) : Ranked(f[x], m) /\ \A z \in Range(f[x]) : m[z] \subseteq n[x]
    PROVE  Ranked(Joined(list, f), m)
<1> DEFINE Fine(s) == Joins(T, s, f) /\ Ranked(s, n)
                      /\ \A x \in Range(s) : Ranked(f[x], m) /\ \A z \in Range(f[x]) : m[z] \subseteq n[x]
           P == {s \in Seq(S) : Fine(s) => Ranked(Joined(s, f), m)}
<1>1. <<>> \in P
  BY EmptySeq, JoinedEmpty, RankedSmall
<1>2. ASSUME NEW s \in Seq(S), NEW e \in S, s \in P PROVE Append(s, e) \in P
  <2>1. Append(s, e) \in Seq(S)
    BY AppendProperties
  <2> SUFFICES ASSUME Fine(Append(s, e)) PROVE Ranked(Joined(Append(s, e), f), m)
    BY <2>1
  <2>2. Range(Append(s, e)) = Range(s) \cup {e}
    BY RangeAppend
  <2>3. Joins(T, s, f) /\ f[e] \in Seq(T)
    BY JoinsAppend
  <2>4. Ranked(s, n) /\ \A x \in Range(s) : AllIn(n[x], n[e])
    BY RankedAppend
  <2>5. Fine(s) /\ Ranked(f[e], m) /\ \A z \in Range(f[e]) : m[z] \subseteq n[e]
    BY <2>2, <2>3, <2>4
  <2> HIDE DEF Fine
  <2>6. Ranked(Joined(s, f), m)
    BY <1>2, <2>5
  <2>7. Joined(Append(s, e), f) = Joined(s, f) \o f[e] /\ Joined(s, f) \in Seq(T)
    BY <2>3, JoinedAppend, JoinedType
  <2>8. \A x \in Range(Joined(s, f)), y \in Range(f[e]) : AllIn(m[x], m[y])
    <3> SUFFICES ASSUME NEW x \in Range(Joined(s, f)), NEW y \in Range(f[e]) PROVE AllIn(m[x], m[y])
      OBVIOUS
    <3>1. PICK v \in Range(s) : x \in Range(f[v])
      BY <2>3, JoinedFacts
    <3>2. m[x] \subseteq n[v] /\ m[y] \subseteq n[e] /\ AllIn(n[v], n[e])
      BY <2>4, <2>5, <3>1 DEF Fine
    <3> QED
      BY <3>2 DEF AllIn
  <2>9. IsList(Joined(s, f)) /\ IsList(f[e])
    BY <2>3, <2>7 DEF IsList
  <2> QED
    BY <2>5, <2>6, <2>7, <2>8, <2>9, RankedFollow
<1> HIDE DEF P
<1>3. Seq(S) \subseteq P
  BY <1>1, <1>2, ListInduction
<1> QED
  BY <1>3 DEF P

-----------------------------------------------------------------------------
(* The texts a task or a page stands for, and the text of a flowable.      *)
Whole == [x \in Ids |-> IF x = 0 THEN {} ELSE Under(x) \cap Texts]
Alone == [x \in Ids |-> {x} \cap Texts]

(* A node lies in the node of every element it is under.                   *)
LEMMA UnderPath ==
    ASSUME ConvInv
    PROVE  \A x \in Ids : \A z \in Under(x) : z \in Nodes /\ x # 0 => Maker(x) \in Path(z)
<1> DEFINE Fine == {x \in Ids : \A z \in Under(x) : z \in Nodes /\ x # 0 => Maker(x) \in Path(z)}
<1>0. TreeIsFile /\ Len(tree) \in Nat /\ Nodes = 1..Len(tree)
  BY IdNumbers DEF ConvInv
<1>1. ASSUME NEW x \in Ids, \A y \in Ids : IdRank[y] > IdRank[x] => y \in Fine
      PROVE  x \in Fine
  <2> SUFFICES ASSUME NEW z \in Under(x), z \in Nodes, x # 0
               PROVE  Maker(x) \in Path(z)
    OBVIOUS
  <2>0. z \in Nat /\ z <= Len(tree) /\ z \in 0..Len(tree)
    BY <1>0
  <2>1. Holds(x, z)
    BY UnderIs
  <2>2. CASE z = x
    <3>1. Maker(x) = x
      BY <1>0, <2>0, <2>2 DEF Maker
    <3> QED
      BY <1>0, <2>2, <3>1, PathIs
  <2>3. CASE z # x
    <3>1. PICK y \in Kids(x) : z \in Under(y)
      BY <2>1, <2>3 DEF Holds
    <3>2. y \in Ids /\ IdRank[y] > IdRank[x] /\ y # 0
      BY <3>1, KidFacts
    <3>3. Maker(y) \in Path(z) /\ Maker(y) \in Nodes
      BY <1>1, <3>1, <3>2, KidPlace
    <3>4. CASE OfWrapper(x, y)
      BY <3>3, <3>4 DEF OfWrapper
    <3>5. CASE OfNode(x, y)
      <4>1. tree[Maker(y)].parent = x /\ Maker(x) = x /\ x <= Len(tree) /\ x \in Nat
        BY <1>0, <3>5, RankFacts DEF OfNode, Up
      <4>2. x \in Nodes
        BY <1>0, <4>1
      <4>3. x \in Path(Maker(y))
        BY <1>0, <3>3, <4>1, <4>2, PathIs
      <4>4. Path(Maker(y)) \subseteq Path(z)
        BY <1>0, <2>0, <3>3, PathUp
      <4> QED
        BY <4>1, <4>3, <4>4
    <3> QED
      BY <3>1, <3>4, <3>5, KidPlace
  <2> QED
    BY <2>2, <2>3
<1>2. 5 * Len(tree) \in Nat /\ IdRank \in [Ids -> 0..(5 * Len(tree))]
  BY RankFacts DEF ConvInv
<1> HIDE DEF Fine
<1>3. Ids \subseteq Fine
  BY <1>1, <1>2, RankInduction
<1> QED
  BY <1>3 DEF Fine

(* The texts under two elements are in the order of the elements' nodes.   *)
LEMMA KidsInOrder ==
    ASSUME ConvInv, NEW a \in Ids \ {0}, NEW b \in Ids \ {0}, Maker(a) \in Nodes, Maker(b) \in Nodes,
           Up(a) = Up(b), Maker(a) # Maker(b), ~Precedes(Maker(b), Maker(a))
    PROVE  AllIn(Whole[a], Whole[b])
<1>1. ASSUME NEW u \in Whole[a], NEW v \in Whole[b] PROVE InOrder(u, v)
  <2>1. u \in Under(a) /\ u \in Nodes /\ v \in Under(b) /\ v \in Nodes
    BY DEF Whole, Texts
  <2>2. Maker(a) \in Path(u) /\ Maker(b) \in Path(v)
    BY <2>1, UnderPath
  <2>3. tree[Maker(a)].parent = tree[Maker(b)].parent
    BY DEF Up
  <2> HIDE DEF Up
  <2> QED
    BY <2>1, <2>2, <2>3, SplitInOrder DEF ConvInv
<1> QED
  BY <1>1 DEF AllIn

Nested2(z) == tree[z].kind = "OutlineElement" /\ tree[z].list = "children"

LEMMA LaterFollows ==
    ASSUME ConvInv, NEW u \in Nodes, NEW v \in Nodes, tree[u].parent = tree[v].parent,
           Kind(tree[u].parent) # "Page"
    PROVE  /\ u < v /\ (Kind(tree[u].parent) = "OutlineElement" => (Nested2(u) <=> Nested2(v)))
                => ~Precedes(v, u)
           /\ Kind(tree[u].parent) = "OutlineElement" /\ ~Nested2(u) /\ Nested2(v) => ~Precedes(v, u)
<1> DEFINE up == Kind(tree[u].parent)
<1>0. u \in Nat /\ v \in Nat
  BY IdNumbers DEF ConvInv
<1>1. up = Kind(tree[v].parent)
  OBVIOUS
<1>2. Precedes(v, u) => \/ ~(up = "OutlineElement" /\ Nested2(v)) /\ up = "OutlineElement" /\ Nested2(u)
                        \/ /\ (up = "OutlineElement" /\ Nested2(v)) <=> (up = "OutlineElement" /\ Nested2(u))
                           /\ v < u
  BY <1>1 DEF Precedes, Nested2
<1> HIDE DEF up, Nested2
<1>3. u < v => ~(v < u)
  BY <1>0
<1> QED
  BY <1>2, <1>3 DEF up

ChildNode(x, y) ==
    /\ y \in Ids \ {0} /\ Maker(y) \in Nodes /\ Up(y) = x
    /\ Kind(x) = "OutlineElement" => Nested2(Maker(y))
ContentNode(x, y) ==
    /\ y \in Ids \ {0} /\ Maker(y) \in Nodes
    /\ \/ Up(y) = x /\ Kind(x) = "OutlineElement" /\ ~Nested2(Maker(y))
       \/ Kind(x) = "OutlineElement" /\ OfWrapper(x, y)

LEMMA ListNodes ==
    ASSUME ConvInv, NEW x \in Ids
    PROVE  /\ \A y \in Range(children[x]) : ChildNode(x, y)
           /\ \A y \in Range(contents[x]) : ContentNode(x, y)
<1>0. TreeIsFile /\ Len(tree) \in Nat /\ Nodes = 1..Len(tree)
  BY IdNumbers DEF ConvInv
<1>1. ASSUME NEW y \in Range(children[x]) PROVE ChildNode(x, y)
  <2>1. y \in Kids(x) /\ ChildOf(x, y)
    BY DEF Kids, ConvInv, ChildrenStand
  <2>2. y \in Ids \ {0} /\ Maker(y) \in Nodes
    BY <2>1, KidFacts, KidPlace
  <2>3. Up(y) = x
    BY <2>1 DEF ChildOf, Up, Maker
  <2>4. Kind(x) = "OutlineElement" => Nested2(Maker(y))
    <3> SUFFICES ASSUME Kind(x) = "OutlineElement" PROVE Nested2(Maker(y))
      OBVIOUS
    <3>1. CASE y > Len(tree)
      <4>1. Place(y - Len(tree)) = "wrapper" /\ x = tree[y - Len(tree)].parent
        BY <2>1, <3>1 DEF ChildOf
      <4>2. Kind(x) = "Outline"
        BY <4>1 DEF Place
      <4> QED
        BY <4>2
    <3>2. CASE ~(y > Len(tree))
      <4>1. Place(y) = "children" /\ x = tree[y].parent /\ Maker(y) = y
        BY <2>1, <3>2 DEF ChildOf, Maker
      <4>2. tree[y].list \in {"children", "content"}
        <5>1. tree[y] \in TreeNode
          BY <1>0, <2>2, <4>1, IdNumbers
        <5> QED
          BY <5>1 DEF TreeNode
      <4>3. ~(tree[y].list = "content" \/ tree[y].kind # "OutlineElement")
        BY <4>1 DEF Place
      <4> QED
        BY <4>1, <4>2, <4>3 DEF Nested2
    <3> QED
      BY <3>1, <3>2
  <2> QED
    BY <2>2, <2>3, <2>4 DEF ChildNode
<1>2. ASSUME NEW y \in Range(contents[x]) PROVE ContentNode(x, y)
  <2>1. y \in Kids(x) /\ ContentOf(x, y)
    BY DEF Kids, ConvInv, ContentsStand
  <2>2. y \in Ids \ {0} /\ Maker(y) \in Nodes /\ Maker(y) = y
    <3>1. y <= Len(tree) /\ y \in Ids
      BY <2>1, KidFacts DEF ContentOf
    <3>2. y \in Nat
      BY <1>0, <3>1, RankFacts
    <3>3. Maker(y) = y
      BY <1>0, <3>1, <3>2 DEF Maker
    <3> QED
      BY <2>1, <3>3, KidFacts, KidPlace
  <2>3. CASE Place(y) = "contents" /\ x = tree[y].parent
    <3>1. Up(y) = x
      BY <2>2, <2>3 DEF Up
    <3>2. Kind(x) = "OutlineElement" /\ (tree[y].list = "content" \/ tree[y].kind # "OutlineElement")
      BY <2>3 DEF Place
    <3>3. ~Nested2(y)
      BY <3>2 DEF Nested2
    <3> QED
      BY <2>2, <3>1, <3>2, <3>3 DEF ContentNode
  <2>4. CASE Place(y) = "wrapper" /\ x = Wrapper(y)
    <3>1. x > Len(tree) /\ x - Len(tree) = y
      BY <1>0, <2>2, <2>4, IdNumbers
    <3>2. Maker(x) = Maker(y) /\ Kind(x) = "OutlineElement"
      <4>1. x # 0
        BY <1>0, <3>1
      <4> QED
        BY <2>2, <3>1, <4>1 DEF Maker, Kind
    <3> QED
      BY <2>2, <3>1, <3>2 DEF ContentNode, OfWrapper
  <2> QED
    BY <2>1, <2>3, <2>4 DEF ContentOf
<1> QED
  BY <1>1, <1>2

(* Below what is no page the lists are in the order of the texts.          *)
InLine(x) ==
    /\ Ranked(children[x], Whole) /\ Ranked(contents[x], Whole)
    /\ \A a \in Range(contents[x]), b \in Range(children[x]) : AllIn(Whole[a], Whole[b])

LEMMA ListsInLine ==
    ASSUME ConvInv, ListsRise
    PROVE  \A x \in Ids : Kind(x) # "Page" => InLine(x)
<1> SUFFICES ASSUME NEW x \in Ids, Kind(x) # "Page" PROVE InLine(x)
  OBVIOUS
<1>0. TreeIsFile /\ Len(tree) \in Nat /\ Nodes = 1..Len(tree) /\ \A z \in Nodes : z \in Nat
  BY IdNumbers DEF ConvInv
<1>1. /\ children[x] \in Seq(Ids) /\ \A i \in 1..Len(children[x]) : children[x][i] \in Range(children[x])
      /\ contents[x] \in Seq(Ids) /\ \A i \in 1..Len(contents[x]) : contents[x][i] \in Range(contents[x])
  BY ListsApart, RangeOf
<1>2. Rises(children[x]) /\ Rises(contents[x])
  BY DEF ListsRise
<1>3. ASSUME NEW i \in 1..Len(children[x]), NEW j \in 1..Len(children[x]), i < j
      PROVE  AllIn(Whole[children[x][i]], Whole[children[x][j]])
  <2> DEFINE a == children[x][i]
             b == children[x][j]
  <2>1. ChildNode(x, a) /\ ChildNode(x, b) /\ Maker(a) < Maker(b)
    BY <1>1, <1>2, <1>3, ListNodes DEF Rises
  <2> HIDE DEF a, b
  <2>2. /\ a \in Ids \ {0} /\ Maker(a) \in Nodes /\ Up(a) = x
        /\ b \in Ids \ {0} /\ Maker(b) \in Nodes /\ Up(b) = x
        /\ Kind(x) = "OutlineElement" => Nested2(Maker(a)) /\ Nested2(Maker(b))
    BY <2>1 DEF ChildNode
  <2>3. ~Precedes(Maker(b), Maker(a))
    BY <2>1, <2>2, LaterFollows DEF Up
  <2>4. Maker(a) # Maker(b)
    BY <1>0, <2>1, <2>2
  <2>5. AllIn(Whole[a], Whole[b])
    BY <2>2, <2>3, <2>4, KidsInOrder
  <2> QED
    BY <2>5 DEF a, b
<1>4. ASSUME NEW i \in 1..Len(contents[x]), NEW j \in 1..Len(contents[x]), i < j
      PROVE  AllIn(Whole[contents[x][i]], Whole[contents[x][j]])
  <2> DEFINE a == contents[x][i]
             b == contents[x][j]
  <2>1. ContentNode(x, a) /\ ContentNode(x, b) /\ Maker(a) < Maker(b)
    BY <1>1, <1>2, <1>4, ListNodes DEF Rises
  <2> HIDE DEF a, b
  <2>2. /\ a \in Ids \ {0} /\ Maker(a) \in Nodes /\ b \in Ids \ {0} /\ Maker(b) \in Nodes
    BY <2>1 DEF ContentNode
  <2>3. Maker(a) # Maker(b)
    BY <1>0, <2>1, <2>2
  <2>4. ~(OfWrapper(x, a) /\ OfWrapper(x, b))
    BY <2>3 DEF OfWrapper
  <2>5. \A y : ContentNode(x, y) /\ OfWrapper(x, y) => Up(y) # x
    <3> SUFFICES ASSUME NEW y, ContentNode(x, y), OfWrapper(x, y), Up(y) = x PROVE FALSE
      OBVIOUS
    <3>1. Maker(y) \in Nodes
      BY DEF ContentNode
    <3>2. Up(y) <= Len(tree) /\ Up(y) \in Nat
      BY <1>0, <3>1, IdNumbers DEF Up
    <3> QED
      BY <1>0, <3>2 DEF OfWrapper
  <2>6. OfWrapper(x, a) => x > Len(tree)
    BY DEF OfWrapper
  <2>7. OfWrapper(x, b) => x > Len(tree)
    BY DEF OfWrapper
  <2>8. Up(a) <= Len(tree) /\ Up(a) \in Nat /\ Up(b) <= Len(tree) /\ Up(b) \in Nat
    BY <1>0, <2>2, IdNumbers DEF Up
  <2>9. Up(a) = x /\ Up(b) = x /\ ~Nested2(Maker(a)) /\ ~Nested2(Maker(b))
    BY <1>0, <2>1, <2>4, <2>6, <2>7, <2>8 DEF ContentNode
  <2>10. ~Precedes(Maker(b), Maker(a))
    BY <2>1, <2>2, <2>9, LaterFollows DEF Up
  <2>11. AllIn(Whole[a], Whole[b])
    BY <2>2, <2>3, <2>9, <2>10, KidsInOrder
  <2> QED
    BY <2>11 DEF a, b
<1>5. ASSUME NEW a \in Range(contents[x]), NEW b \in Range(children[x]) PROVE AllIn(Whole[a], Whole[b])
  <2>1. ContentNode(x, a) /\ ChildNode(x, b)
    BY ListNodes
  <2>2. /\ a \in Ids \ {0} /\ Maker(a) \in Nodes /\ b \in Ids \ {0} /\ Maker(b) \in Nodes /\ Up(b) = x
        /\ Kind(x) = "OutlineElement" /\ Nested2(Maker(b))
    BY <2>1 DEF ContentNode, ChildNode
  <2>3. Up(b) <= Len(tree) /\ Up(b) \in Nat
    BY <1>0, <2>2, IdNumbers DEF Up
  <2>4. Up(a) = x /\ ~Nested2(Maker(a))
    BY <1>0, <2>1, <2>2, <2>3 DEF ContentNode, OfWrapper
  <2>5. Maker(a) # Maker(b)
    BY <2>2, <2>4
  <2>6. ~Precedes(Maker(b), Maker(a))
    BY <2>2, <2>4, LaterFollows DEF Up
  <2> QED
    BY <2>2, <2>4, <2>5, <2>6, KidsInOrder
<1> QED
  BY <1>3, <1>4, <1>5 DEF InLine, Ranked

-----------------------------------------------------------------------------
(* Sorting by place: from top to bottom, and in the order of the nodes     *)
(* where the place is the same.                                            *)
Leads(a, b) == tree[a].y < tree[b].y \/ (tree[a].y = tree[b].y /\ a < b)
InLead(seq) == \A i, j \in 1..Len(seq) : i < j => Leads(seq[i], seq[j])

LEMMA PrefixSet ==
    ASSUME NEW n \in Nat, NEW b, b \subseteq 1..n, \A k \in b : \A j \in 1..n : j < k => j \in b
    PROVE  Cardinality(b) \in 0..n /\ b = 1..Cardinality(b)
<1>1. PICK c \in 0..n : b = 1..c
  <2>1. CASE b = {}
    <3>1. 0 \in 0..n /\ b = 1..0
      BY <2>1
    <3> QED
      BY <3>1
  <2>2. CASE b # {}
    <3> DEFINE c == Max(b)
    <3>1. c \in b /\ \A x \in b : c >= x
      <4>1. b \subseteq 0..n
        OBVIOUS
      <4> QED
        BY <2>2, <4>1, GreatestNatural
    <3> HIDE DEF c
    <3>2. c \in 1..n
      BY <3>1
    <3>3. \A x \in 1..c : x \in b
      <4> TAKE x \in 1..c
      <4>1. x \in 1..n /\ (x = c \/ x < c)
        BY <3>2
      <4> QED
        BY <3>1, <4>1
    <3>4. \A x \in b : x \in 1..c
      BY <3>1, <3>2
    <3>5. b = 1..c
      BY <3>3, <3>4
    <3> QED
      BY <3>2, <3>5
  <2> QED
    BY <2>1, <2>2
<1>2. Cardinality(1..c) = c
  <2>1. 1 \in Int /\ c \in Int
    OBVIOUS
  <2>2. Cardinality(1..c) = IF 1 > c THEN 0 ELSE c - 1 + 1
    BY <2>1, FS_Interval
  <2> QED
    BY <2>2
<1> QED
  BY <1>1, <1>2

LEMMA InsertAtPlaces ==
    ASSUME NEW S, NEW s \in Seq(S), NEW e \in S, NEW place \in 1..(Len(s) + 1)
    PROVE  /\ Len(InsertAt(s, place, e)) = Len(s) + 1
           /\ \A j \in 1..(Len(s) + 1) :
                InsertAt(s, place, e)[j] = IF j < place THEN s[j] ELSE IF j = place THEN e ELSE s[j - 1]
<1> DEFINE n == Len(s)
           a == SubSeq(s, 1, place - 1)
           p == <<e>>
           z == SubSeq(s, place, n)
<1>1. n \in Nat
  BY LenProperties
<1>2. /\ Len(a) = place - 1 /\ \A j \in 1..(place - 1) : a[j] = s[j]
      /\ Len(z) = n + 1 - place /\ \A j \in 1..(n + 1 - place) : z[j] = s[place + j - 1]
      /\ a \in Seq(S) /\ z \in Seq(S)
  <2>1. /\ 1 \in 1..(n + 1) /\ place - 1 \in (1 - 1)..n
        /\ place \in 1..(n + 1) /\ n \in (place - 1)..n
    BY <1>1
  <2>2. a \in Seq(S) /\ Len(a) = (place - 1) - 1 + 1 /\ \A j \in 1..((place - 1) - 1 + 1) : a[j] = s[1 + j - 1]
    BY <2>1, SubSeqProperties
  <2>3. z \in Seq(S) /\ Len(z) = n - place + 1 /\ \A j \in 1..(n - place + 1) : z[j] = s[place + j - 1]
    BY <2>1, SubSeqProperties
  <2> HIDE DEF a, z, n
  <2> QED
    BY <1>1, <2>2, <2>3
<1>3. Len(p) = 1 /\ p[1] = e /\ p \in Seq(S)
  OBVIOUS
<1>4. InsertAt(s, place, e) = (a \o p) \o z
  BY DEF InsertAt
<1> HIDE DEF a, p, z, n
<1> DEFINE b == a \o p
<1>5. Len(b) = place /\ IsList(b) /\ \A j \in 1..place : b[j] = IF j < place THEN s[j] ELSE e
  <2>1. IsList(a) /\ IsList(p)
    BY <1>2, <1>3 DEF IsList
  <2>2. IsList(b) /\ Len(b) = Len(a) + Len(p)
        /\ \A j \in 1..(Len(a) + Len(p)) : b[j] = IF j <= Len(a) THEN a[j] ELSE p[j - Len(a)]
    BY <2>1, ListFollows DEF Follows
  <2> HIDE DEF b
  <2>3. Len(a) + Len(p) = place
    BY <1>2, <1>3
  <2>4. ASSUME NEW j \in 1..place PROVE b[j] = IF j < place THEN s[j] ELSE e
    <3>1. CASE j < place
      <4>1. j \in 1..(place - 1) /\ j <= Len(a)
        BY <1>2, <3>1
      <4> QED
        BY <1>2, <2>2, <2>3, <3>1, <4>1
    <3>2. CASE ~(j < place)
      <4>1. j = place /\ ~(j <= Len(a)) /\ j - Len(a) = 1
        BY <1>2, <3>2
      <4> QED
        BY <1>3, <2>2, <2>3, <3>2, <4>1
    <3> QED
      BY <3>1, <3>2
  <2> QED
    BY <2>2, <2>3, <2>4
<1>6. IsList(z)
  BY <1>2 DEF IsList
<1> HIDE DEF b
<1> DEFINE u == b \o z
<1>7. Len(u) = Len(b) + Len(z) /\ \A j \in 1..(Len(b) + Len(z)) : u[j] = IF j <= Len(b) THEN b[j] ELSE z[j - Len(b)]
  BY <1>5, <1>6, ListFollows DEF Follows
<1> HIDE DEF u
<1>8. Len(b) + Len(z) = n + 1
  BY <1>1, <1>2, <1>5
<1>9. ASSUME NEW j \in 1..(n + 1) PROVE u[j] = IF j < place THEN s[j] ELSE IF j = place THEN e ELSE s[j - 1]
  <2>1. CASE j <= place
    <3>1. j \in 1..place /\ u[j] = b[j] /\ (j < place \/ j = place)
      BY <1>5, <1>7, <1>8, <2>1
    <3> QED
      BY <1>5, <3>1
  <2>2. CASE ~(j <= place)
    <3>1. u[j] = z[j - place] /\ j - place \in 1..(n + 1 - place) /\ place + (j - place) - 1 = j - 1
      BY <1>1, <1>5, <1>7, <1>8, <2>2
    <3>2. u[j] = s[j - 1]
      BY <1>2, <3>1
    <3> QED
      BY <2>2, <3>2
  <2> QED
    BY <2>1, <2>2
<1> QED
  BY <1>4, <1>7, <1>8, <1>9 DEF u, b, n

LEMMA InsertLeads ==
    ASSUME TreeIsFile, NEW placed \in Seq(Nodes), InLead(placed), NEW e \in Nodes, \A x \in Range(placed) : x < e
    PROVE  InLead(InsertAt(placed, Place1(placed, e), e))
<1> DEFINE n == Len(placed)
           b == Before(placed, e)
           c == Cardinality(b)
           t == InsertAt(placed, Place1(placed, e), e)
<1>0. \A x \in Nodes : x \in Nat /\ tree[x].y \in Nat
  <2> TAKE x \in Nodes
  <2>1. x \in Nat /\ tree[x] \in TreeNode
    BY IdNumbers
  <2> QED
    BY <2>1 DEF TreeNode
<1>1. n \in Nat /\ DOMAIN placed = 1..n /\ \A k \in 1..n : placed[k] \in Nodes /\ placed[k] < e
  <2>1. \A k \in 1..n : placed[k] \in Range(placed) /\ placed[k] \in Nodes
    BY RangeOf
  <2> QED
    BY <2>1, LenProperties
<1>2. b = {k \in 1..n : tree[placed[k]].y <= tree[e].y}
  BY <1>1 DEF Before
<1>3. \A i, j \in 1..n : i < j => Leads(placed[i], placed[j])
  BY DEF InLead
<1>4. \A k \in b : \A j \in 1..n : j < k => j \in b
  <2> SUFFICES ASSUME NEW k \in b, NEW j \in 1..n, j < k PROVE j \in b
    OBVIOUS
  <2>1. k \in 1..n /\ tree[placed[k]].y <= tree[e].y
    BY <1>2
  <2>3. placed[k] \in Nodes /\ placed[j] \in Nodes
    BY <1>1, <2>1
  <2>2. tree[placed[j]].y <= tree[placed[k]].y
    <3>1. Leads(placed[j], placed[k])
      BY <1>3, <2>1
    <3>2. tree[placed[j]].y \in Nat /\ tree[placed[k]].y \in Nat
      BY <1>0, <2>3
    <3> QED
      BY <3>1, <3>2 DEF Leads
  <2>4. tree[placed[j]].y <= tree[e].y
    BY <1>0, <2>1, <2>2, <2>3
  <2> QED
    BY <1>2, <2>4
<1>5. b \subseteq 1..n
  BY <1>2
<1> HIDE DEF b
<1>6. c \in 0..n /\ b = 1..c
  BY <1>1, <1>4, <1>5, PrefixSet
<1>7. /\ Len(t) = n + 1
      /\ \A j \in 1..(n + 1) : t[j] = IF j < c + 1 THEN placed[j] ELSE IF j = c + 1 THEN e ELSE placed[j - 1]
  <2>1. Place1(placed, e) = c + 1
    BY DEF Place1, b
  <2>2. c + 1 \in 1..(n + 1)
    BY <1>1, <1>6
  <2> QED
    BY <2>1, <2>2, InsertAtPlaces
<1> HIDE DEF t, c
<1>8. ASSUME NEW i \in 1..(n + 1), NEW j \in 1..(n + 1), i < j PROVE Leads(t[i], t[j])
  <2>1. CASE j < c + 1
    <3>1. t[i] = placed[i] /\ t[j] = placed[j] /\ i \in 1..n /\ j \in 1..n
      BY <1>1, <1>6, <1>7, <1>8, <2>1
    <3> QED
      BY <1>3, <1>8, <3>1
  <2>2. CASE j = c + 1
    <3>1. t[i] = placed[i] /\ t[j] = e /\ i \in 1..n /\ i \in 1..c
      BY <1>1, <1>6, <1>7, <1>8, <2>2
    <3>2. tree[placed[i]].y <= tree[e].y /\ placed[i] < e
      BY <1>1, <1>2, <1>6, <3>1
    <3>3. placed[i] \in Nodes
      BY <1>1, <3>1
    <3> QED
      BY <1>0, <3>1, <3>2, <3>3 DEF Leads
  <2>3. CASE j > c + 1 /\ i < c + 1
    <3>1. t[i] = placed[i] /\ t[j] = placed[j - 1] /\ i \in 1..n /\ j - 1 \in 1..n /\ i < j - 1
      BY <1>1, <1>6, <1>7, <1>8, <2>3
    <3> QED
      BY <1>3, <3>1
  <2>4. CASE j > c + 1 /\ i = c + 1
    <3>1. t[i] = e /\ t[j] = placed[j - 1] /\ j - 1 \in 1..n /\ j - 1 \notin 1..c
      BY <1>1, <1>6, <1>7, <1>8, <2>4
    <3>2. ~(tree[placed[j - 1]].y <= tree[e].y) /\ placed[j - 1] \in Nodes
      BY <1>1, <1>2, <1>6, <3>1
    <3> QED
      BY <1>0, <3>1, <3>2 DEF Leads
  <2>5. CASE j > c + 1 /\ i > c + 1
    <3>1. t[i] = placed[i - 1] /\ t[j] = placed[j - 1] /\ i - 1 \in 1..n /\ j - 1 \in 1..n /\ i - 1 < j - 1
      BY <1>1, <1>6, <1>7, <1>8, <2>5
    <3> QED
      BY <1>3, <3>1
  <2> QED
    BY <1>1, <1>6, <2>1, <2>2, <2>3, <2>4, <2>5
<1> QED
  BY <1>7, <1>8 DEF InLead, t

LEMMA ByPlaceLeads ==
    ASSUME TreeIsFile, NEW seq \in Seq(Nodes), \A i, j \in 1..Len(seq) : i < j => seq[i] < seq[j]
    PROVE  InLead(ByPlace(seq)) /\ Range(ByPlace(seq)) = Range(seq)
<1> DEFINE n == Len(seq)
<1>1. PICK g : PlaceLoop(g, seq)
  BY ByPlaceIs
<1> DEFINE P == {k \in 0..n : InLead(g[k]) /\ Range(g[k]) = {seq[j] : j \in 1..k}}
<1>2. n \in Nat /\ Range(seq) \subseteq Nodes /\ \A k \in 1..n : seq[k] \in Range(seq)
  BY LenProperties, RangeOf
<1>3. 0 \in P
  <2>1. g[0] = <<>> /\ Len(<<>>) = 0
    BY <1>1 DEF PlaceLoop
  <2>2. InLead(<<>>)
    BY <2>1 DEF InLead
  <2>3. Range(<<>>) = {seq[j] : j \in 1..0}
    BY RangeEmpty
  <2> QED
    BY <1>2, <2>1, <2>2, <2>3
<1>4. ASSUME NEW k \in 1..n, k - 1 \in P PROVE k \in P
  <2> DEFINE t == g[k - 1]
             e == seq[k]
  <2>1. g[k] = InsertAt(t, Place1(t, e), e) /\ t \in Seq(Range(seq))
    <3>1. k - 1 \in 0..n
      BY <1>2
    <3> QED
      BY <1>1, <3>1 DEF PlaceLoop
  <2>2. InLead(t) /\ Range(t) = {seq[j] : j \in 1..(k - 1)}
    BY <1>4
  <2>3. e \in Nodes /\ e \in Range(seq)
    BY <1>2
  <2>4. \A x \in Range(t) : x < e
    <3>1. \A j \in 1..(k - 1) : j \in 1..n /\ k \in 1..n /\ j < k
      BY <1>2
    <3> QED
      BY <2>2, <3>1
  <2>5. t \in Seq(Nodes)
    BY <1>2, <2>1, WiderList
  <2> HIDE DEF t, e
  <2>6. InLead(g[k])
    BY <2>1, <2>2, <2>3, <2>4, <2>5, InsertLeads
  <2>7. Range(g[k]) = Range(t) \cup {e}
    <3>1. Place1(t, e) \in 1..(Len(t) + 1)
      BY <2>5, PlaceInList
    <3> QED
      BY <2>1, <2>3, <2>5, <3>1, InsertAtFacts
  <2>8. {seq[j] : j \in 1..k} = {seq[j] : j \in 1..(k - 1)} \cup {e}
    <3>1. \A j \in 1..k : j = k \/ j \in 1..(k - 1)
      BY <1>2
    <3>2. \A j \in 1..(k - 1) : j \in 1..k
      BY <1>2
    <3>3. k \in 1..k
      BY <1>2
    <3> QED
      BY <3>1, <3>2, <3>3 DEF e
  <2>9. k \in 0..n
    BY <1>2
  <2> QED
    BY <2>2, <2>6, <2>7, <2>8, <2>9
<1>5. n \in P
  <2> HIDE DEF n, P
  <2> QED
    BY <1>2, <1>3, <1>4, UpTo
<1>6. Range(seq) = {seq[j] : j \in 1..n}
  <2>1. \A x \in Range(seq) : \E j \in 1..n : x = seq[j]
    BY RangeOf
  <2> QED
    BY <1>2, <2>1
<1> QED
  BY <1>1, <1>5, <1>6 DEF PlaceLoop

LEMMA RisesLess ==
    ASSUME NEW S, NEW seq \in Seq(S), NEW e \in S, Rises(Append(seq, e))
    PROVE  Rises(seq) /\ \A y \in Range(seq) : Maker(y) < Maker(e)
<1> DEFINE n == Len(seq)
           t == Append(seq, e)
<1>1. n \in Nat /\ Len(t) = n + 1 /\ t[n + 1] = e /\ \A k \in 1..n : t[k] = seq[k]
  BY AppendProperties, LenProperties
<1>2. \A x \in Range(seq) : \E k \in 1..n : x = seq[k]
  BY RangeOf
<1>3. \A i, j \in 1..(n + 1) : i < j => Maker(t[i]) < Maker(t[j])
  BY <1>1 DEF Rises
<1> HIDE DEF t, n
<1>4. \A i, j \in 1..n : i < j => Maker(seq[i]) < Maker(seq[j])
  <2>1. \A i \in 1..n : i \in 1..(n + 1)
    BY <1>1
  <2> QED
    BY <1>1, <1>3, <2>1
<1>5. \A k \in 1..n : Maker(seq[k]) < Maker(e)
  <2>1. \A k \in 1..n : k \in 1..(n + 1) /\ n + 1 \in 1..(n + 1) /\ k < n + 1
    BY <1>1
  <2> QED
    BY <1>1, <1>3, <2>1
<1> QED
  BY <1>2, <1>4, <1>5 DEF Rises, n

LEMMA OnlyRises ==
    ASSUME NEW S, NEW seq \in Seq(S), NEW wanted, Rises(seq)
    PROVE  Rises(Only(seq, wanted))
<1> DEFINE P == {s \in Seq(S) : Rises(s) => Rises(Only(s, wanted))}
<1>1. <<>> \in P
  BY EmptySeq, OnlyEmpty
<1>2. ASSUME NEW s \in Seq(S), NEW e \in S, s \in P PROVE Append(s, e) \in P
  <2>1. Append(s, e) \in Seq(S)
    BY AppendProperties
  <2> SUFFICES ASSUME Rises(Append(s, e)) PROVE Rises(Only(Append(s, e), wanted))
    BY <2>1
  <2> DEFINE o == Only(s, wanted)
  <2>2. Rises(s) /\ \A y \in Range(s) : Maker(y) < Maker(e)
    BY RisesLess
  <2>3. o \in Seq(S) /\ Range(o) \subseteq Range(s) /\ Rises(o)
    BY <1>2, <2>2, OnlyType, OnlyFacts
  <2>4. Only(Append(s, e), wanted) = IF e \in wanted THEN Append(o, e) ELSE o
    BY OnlyAppend
  <2> HIDE DEF o
  <2>5. Rises(Append(o, e))
    BY <2>2, <2>3, RisesAppend
  <2> QED
    BY <2>3, <2>4, <2>5
<1> HIDE DEF P
<1>3. Seq(S) \subseteq P
  BY <1>1, <1>2, ListInduction
<1> QED
  BY <1>3 DEF P

(* What is drawn of a page is in the order of its texts.                   *)
LEMMA PageChild ==
    ASSUME ConvInv, NEW p \in Ids, Kind(p) = "Page", NEW y \in Range(children[p])
    PROVE  y \in Nodes /\ y # 0 /\ y \in Ids /\ Maker(y) = y /\ Up(y) = p /\ tree[y].parent = p /\ Kind(y) = tree[y].kind
<1>0. TreeIsFile /\ Len(tree) \in Nat /\ Nodes = 1..Len(tree)
  BY IdNumbers DEF ConvInv
<1>1. ChildNode(p, y) /\ ChildOf(p, y)
  BY ListNodes DEF ConvInv, ChildrenStand
<1>2. y \in Ids \ {0} /\ Maker(y) \in Nodes /\ Up(y) = p
  BY <1>1 DEF ChildNode
<1>3. y <= Len(tree)
  <2> SUFFICES ASSUME y > Len(tree) PROVE FALSE
    BY <1>0, <1>2, RankFacts
  <2>1. Kind(p) = "Outline"
    BY <1>1 DEF ChildOf, Place
  <2> QED
    BY <2>1
<1>4. y \in Nat
  BY <1>0, <1>2, RankFacts
<1>5. Maker(y) = y /\ Kind(y) = tree[y].kind
  BY <1>0, <1>2, <1>3, <1>4 DEF Maker, Kind
<1> QED
  BY <1>2, <1>5 DEF Up

LEMMA PageInLine ==
    ASSUME ConvInv, ListsRise, NEW p \in Ids, Kind(p) = "Page"
    PROVE  Ranked(PageItems(p), Whole) /\ Range(PageItems(p)) = Range(children[p])
<1> DEFINE outlines == {x \in Ids : Kind(x) = "Outline"}
           first == Only(children[p], outlines)
           outs  == ByPlace(first)
           rest  == Only(children[p], Ids \ outlines)
<1>0. TreeIsFile /\ \A z \in Nodes : z \in Nat /\ z \in Ids
  BY IdNumbers DEF ConvInv
<1>1. PageItems(p) = outs \o rest
  BY DEF PageItems
<1>2. children[p] \in Seq(Ids) /\ Rises(children[p])
  BY ListsApart DEF ListsRise
<1>3. /\ first \in Seq(Ids) /\ Range(first) = Range(children[p]) \cap outlines /\ Rises(first)
      /\ rest \in Seq(Ids) /\ Range(rest) = Range(children[p]) \cap (Ids \ outlines) /\ Rises(rest)
  BY <1>2, OnlyType, OnlyFacts, OnlyRises
<1>4. \A y \in Range(children[p]) : /\ y \in Nodes /\ y # 0 /\ y \in Ids /\ Maker(y) = y /\ Up(y) = p
                                    /\ tree[y].parent = p /\ Kind(y) = tree[y].kind
  BY PageChild
<1>5. first \in Seq(Nodes)
  <2>1. \A i \in 1..Len(first) : first[i] \in Range(first)
    BY <1>3, RangeOf
  <2>2. \A i \in 1..Len(first) : first[i] \in Nodes
    BY <1>3, <1>4, <2>1
  <2>3. Len(first) \in Nat /\ first = [i \in 1..Len(first) |-> first[i]]
    BY <1>3, LenProperties
  <2> HIDE DEF first
  <2> QED
    BY <2>2, <2>3, SeqDef
<1>6. InLead(outs) /\ Range(outs) = Range(first) /\ outs \in Seq(Nodes)
  <2>1. \A i \in 1..Len(first) : first[i] \in Range(first)
    BY <1>3, RangeOf
  <2>2. \A i, j \in 1..Len(first) : i < j => first[i] < first[j]
    BY <1>3, <1>4, <2>1 DEF Rises
  <2> HIDE DEF first
  <2> QED
    BY <1>0, <1>5, <2>2, ByPlaceLeads, ByPlaceFacts
<1> HIDE DEF first, outs, rest
<1>7. \A a \in Range(outs) : a \in Range(children[p]) /\ tree[a].kind = "Outline"
  BY <1>3, <1>4, <1>6
<1>8. \A a \in Range(rest) : a \in Range(children[p]) /\ tree[a].kind # "Outline"
  BY <1>3, <1>4
<1>9. ASSUME NEW a \in Range(children[p]), NEW b \in Range(children[p]), a # b,
             \/ tree[a].kind = "Outline" /\ tree[b].kind = "Outline" /\ Leads(a, b)
             \/ tree[a].kind = "Outline" /\ tree[b].kind # "Outline"
             \/ tree[a].kind # "Outline" /\ tree[b].kind # "Outline" /\ a < b
      PROVE  AllIn(Whole[a], Whole[b])
  <2>1. /\ a \in Nodes /\ b \in Nodes /\ a \in Nat /\ b \in Nat /\ tree[a].y \in Nat /\ tree[b].y \in Nat
    <3>1. a \in Nodes /\ b \in Nodes /\ tree[a] \in TreeNode /\ tree[b] \in TreeNode
      BY <1>0, <1>4, IdNumbers
    <3> QED
      BY <1>0, <3>1 DEF TreeNode
  <2>2. ~Precedes(b, a)
    <3>1. Kind(tree[b].parent) = "Page"
      BY <1>4
    <3> QED
      BY <1>9, <2>1, <3>1 DEF Precedes, Leads
  <2> QED
    BY <1>4, <1>9, <2>2, KidsInOrder
<1>10. Ranked(outs, Whole)
  <2>1. ASSUME NEW i \in 1..Len(outs), NEW j \in 1..Len(outs), i < j
        PROVE  AllIn(Whole[outs[i]], Whole[outs[j]])
    <3>1. outs[i] \in Range(outs) /\ outs[j] \in Range(outs)
      BY <1>6, RangeOf
    <3>2. Leads(outs[i], outs[j])
      BY <1>6, <2>1 DEF InLead
    <3>3. outs[i] \in Nat /\ tree[outs[i]].y \in Nat
      <4>1. outs[i] \in Nodes
        BY <1>4, <1>7, <3>1
      <4>2. tree[outs[i]] \in TreeNode
        BY <1>0, <4>1, IdNumbers
      <4> QED
        BY <1>0, <4>1, <4>2 DEF TreeNode
    <3>4. outs[i] # outs[j]
      BY <3>2, <3>3 DEF Leads
    <3> QED
      BY <1>7, <1>9, <3>1, <3>2, <3>4
  <2> QED
    BY <2>1 DEF Ranked
<1>11. Ranked(rest, Whole)
  <2>1. ASSUME NEW i \in 1..Len(rest), NEW j \in 1..Len(rest), i < j
        PROVE  AllIn(Whole[rest[i]], Whole[rest[j]])
    <3>1. rest[i] \in Range(rest) /\ rest[j] \in Range(rest)
      BY <1>3, RangeOf
    <3>2. Maker(rest[i]) < Maker(rest[j])
      BY <1>3, <2>1 DEF Rises
    <3>3. rest[i] < rest[j] /\ rest[i] \in Nat /\ rest[j] \in Nat
      BY <1>0, <1>4, <1>8, <3>1, <3>2
    <3> QED
      BY <1>8, <1>9, <3>1, <3>3
  <2> QED
    BY <2>1 DEF Ranked
<1>12. \A a \in Range(outs), b \in Range(rest) : AllIn(Whole[a], Whole[b])
  BY <1>7, <1>8, <1>9
<1>13. IsList(outs) /\ IsList(rest)
  BY <1>3, <1>6 DEF IsList
<1>14. Range(outs \o rest) = Range(outs) \cup Range(rest)
  BY <1>13, ListConcat
<1>15. Range(outs) \cup Range(rest) = Range(children[p])
  <2>1. Range(children[p]) \subseteq Ids
    BY <1>4
  <2> QED
    BY <1>3, <1>6, <2>1
<1> QED
  BY <1>1, <1>10, <1>11, <1>12, <1>13, <1>14, <1>15, RankedFollow

LEMMA WholeKid ==
    ASSUME ConvInv, NEW x \in Ids, x # 0, NEW y \in Kids(x)
    PROVE  y \in Ids /\ y # 0 /\ Whole[y] \subseteq Whole[x]
<1>1. y \in Ids /\ y > 0 /\ Under(y) \subseteq Under(x)
  BY KidFacts, UnderFacts
<1>2. y # 0
  BY <1>1
<1> QED
  BY <1>1, <1>2 DEF Whole

(* What is drawn of a cell is in the order of its texts.                   *)
LEMMA CellsInLine ==
    ASSUME ConvInv, ListsRise
    PROVE  \A x \in Ids : Ranked(CellContent[x], Alone) /\ \A z \in Range(CellContent[x]) : Alone[z] \subseteq Whole[x]
<1> DEFINE F == CellContent
           Fine == {x \in Ids : Ranked(F[x], Alone) /\ \A z \in Range(F[x]) : Alone[z] \subseteq Whole[x]}
<1>1. TreeIsFile /\ Kind(0) = "Section"
  BY DEF ConvInv, Kind
<1>2. F \in [Ids -> Seq(Ids)] /\ \A x \in Ids : CellStep(x)
  BY CellIs
<1>3. 5 * Len(tree) \in Nat /\ IdRank \in [Ids -> 0..(5 * Len(tree))]
  BY <1>1, RankFacts
<1> HIDE DEF F
<1>4. ASSUME NEW x \in Ids, \A y \in Ids : IdRank[y] > IdRank[x] => y \in Fine
      PROVE  x \in Fine
  <2>1. CASE Kind(x) = "OutlineElement"
    <3> DEFINE c == contents[x] \o children[x]
    <3>1. /\ F[x] = Joined(c, F) /\ c \in Seq(Ids) /\ Range(c) = Range(children[x]) \cup Range(contents[x])
          /\ IsList(contents[x]) /\ IsList(children[x])
      BY <1>2, <2>1, ListsApart DEF CellStep, F, IsList
    <3>2. InLine(x)
      BY <2>1, ListsInLine
    <3>3. Ranked(c, Whole)
      BY <3>1, <3>2, RankedFollow DEF InLine
    <3> HIDE DEF c
    <3>4. Range(c) = Kids(x) /\ x # 0
      BY <1>1, <2>1, <3>1 DEF Kids
    <3>5. \A y \in Range(c) : y \in Ids /\ IdRank[y] > IdRank[x] /\ Whole[y] \subseteq Whole[x]
      BY <3>4, KidFacts, WholeKid
    <3>6. \A y \in Range(c) : Ranked(F[y], Alone) /\ \A z \in Range(F[y]) : Alone[z] \subseteq Whole[y]
      BY <1>4, <3>5
    <3>7. Joins(Ids, c, F)
      BY <1>2, <3>5 DEF Joins
    <3>8. Ranked(Joined(c, F), Alone)
      BY <3>1, <3>3, <3>6, <3>7, JoinedRanked
    <3>9. \A z : z \in Range(Joined(c, F)) <=> \E y \in Range(c) : z \in Range(F[y])
      BY <3>1, <3>7, JoinedFacts
    <3>10. \A z \in Range(Joined(c, F)) : Alone[z] \subseteq Whole[x]
      <4> TAKE z \in Range(Joined(c, F))
      <4>1. PICK y \in Range(c) : z \in Range(F[y])
        BY <3>9
      <4> QED
        BY <3>5, <3>6, <4>1
    <3> QED
      BY <3>1, <3>8, <3>10
  <2>2. CASE Kind(x) # "OutlineElement"
    <3>1. F[x] \in {<<>>, <<x>>} /\ (F[x] = <<x>> => x # 0)
      BY <1>2, <2>2 DEF CellStep, F
    <3>2. Range(<<x>>) = {x} /\ Range(<<>>) = {}
      BY OneMember, RangeEmpty
    <3>3. Ranked(<<>>, Alone) /\ Ranked(<<x>>, Alone)
      BY RankedSmall
    <3>4. x # 0 => Alone[x] \subseteq Whole[x]
      <4>1. x \in Under(x)
        BY UnderFacts
      <4> QED
        BY <4>1 DEF Alone, Whole
    <3> QED
      BY <3>1, <3>2, <3>3, <3>4
  <2> QED
    BY <2>1, <2>2
<1>5. Ids \subseteq Fine
  <2> HIDE DEF Fine
  <2> QED
    BY <1>3, <1>4, RankInduction
<1> QED
  BY <1>5 DEF F

LEMMA JoinedKidsInLine ==
    ASSUME ConvInv, ListsRise, NEW list \in Seq(Ids), Ranked(list, Whole),
           \A x \in Range(list) : x # 0 /\ Kind(x) # "Page"
    PROVE  /\ Joined(list, children) \in Seq(Ids) /\ Ranked(Joined(list, children), Whole)
           /\ \A z : z \in Range(Joined(list, children)) <=> \E x \in Range(list) : z \in Range(children[x])
           /\ \A z \in Range(Joined(list, children)) : z \in Ids /\ z # 0
<1>1. Range(list) \subseteq Ids
  BY RangeOf
<1>2. Joins(Ids, list, children)
  BY <1>1, ListsApart DEF Joins
<1>3. ASSUME NEW x \in Range(list)
      PROVE  Ranked(children[x], Whole)
             /\ \A z \in Range(children[x]) : z \in Ids /\ z # 0 /\ Whole[z] \subseteq Whole[x]
  <2>1. InLine(x)
    BY <1>1, ListsInLine
  <2>2. \A z \in Range(children[x]) : z \in Kids(x)
    BY DEF Kids
  <2> QED
    BY <1>1, <2>1, <2>2, WholeKid DEF InLine
<1>4. Joined(list, children) \in Seq(Ids) /\ Ranked(Joined(list, children), Whole)
  BY <1>2, <1>3, JoinedType, JoinedRanked
<1>5. \A z : z \in Range(Joined(list, children)) <=> \E x \in Range(list) : z \in Range(children[x])
  BY <1>2, JoinedFacts
<1> QED
  BY <1>3, <1>4, <1>5

LEMMA InnerInLine ==
    ASSUME ConvInv, ListsRise, NEW x \in Ids, Kind(x) = "Table"
    PROVE  Ranked(Joined(Joined(Joined(children[x], children), children), CellContent), Alone)
<1> DEFINE rows  == children[x]
           cells == Joined(rows, children)
           found == Joined(cells, children)
           inner == Joined(found, CellContent)
<1>1. x # 0
  BY DEF Kind
<1>2. /\ rows \in Seq(Ids) /\ Ranked(rows, Whole)
      /\ \A y \in Range(rows) : y \in Ids /\ y # 0 /\ Kind(y) = "TableRow"
  <2>1. rows \in Seq(Ids) /\ \A y \in Range(rows) : y \in Kids(x)
    BY ListsApart DEF Kids
  <2>2. InLine(x)
    BY ListsInLine
  <2> QED
    BY <1>1, <2>1, <2>2, WholeKid, KindsBelow DEF InLine
<1> HIDE DEF rows
<1>3. \A y \in Range(rows) : y # 0 /\ Kind(y) # "Page"
  BY <1>2
<1>4. /\ cells \in Seq(Ids) /\ Ranked(cells, Whole)
      /\ \A z : z \in Range(cells) <=> \E y \in Range(rows) : z \in Range(children[y])
      /\ \A z \in Range(cells) : z \in Ids /\ z # 0
  BY <1>2, <1>3, JoinedKidsInLine
<1> HIDE DEF cells
<1>5. \A z \in Range(cells) : z # 0 /\ Kind(z) # "Page"
  <2> TAKE z \in Range(cells)
  <2>1. PICK y \in Range(rows) : z \in Range(children[y])
    BY <1>4
  <2>2. Kind(z) = "TableCell"
    BY <1>2, <2>1, KindsBelow
  <2> QED
    BY <1>4, <2>2
<1>6. /\ found \in Seq(Ids) /\ Ranked(found, Whole) /\ \A z \in Range(found) : z \in Ids /\ z # 0
  BY <1>4, <1>5, JoinedKidsInLine
<1> HIDE DEF found
<1>7. CellContent \in [Ids -> Seq(Ids)]
  BY CellIs
<1>8. Joins(Ids, found, CellContent)
  BY <1>6, <1>7 DEF Joins
<1>9. Ranked(inner, Alone)
  BY <1>6, <1>8, CellsInLine, JoinedRanked
<1> QED
  BY <1>9 DEF found, cells, rows

LEMMA UnderTrans ==
    ASSUME ConvInv
    PROVE  \A y \in Ids : \A z \in Under(y) : Under(z) \subseteq Under(y)
<1> DEFINE Fine == {y \in Ids : \A z \in Under(y) : Under(z) \subseteq Under(y)}
<1>1. ASSUME NEW y \in Ids, \A k \in Ids : IdRank[k] > IdRank[y] => k \in Fine
      PROVE  y \in Fine
  <2> SUFFICES ASSUME NEW z \in Under(y) PROVE Under(z) \subseteq Under(y)
    OBVIOUS
  <2>1. CASE z = y
    BY <2>1
  <2>2. CASE z # y
    <3>1. PICK k \in Kids(y) : z \in Under(k)
      BY <2>2, UnderIs DEF Holds
    <3>2. k \in Ids /\ IdRank[k] > IdRank[y] /\ Under(k) \subseteq Under(y)
      BY <3>1, KidFacts, UnderFacts
    <3> QED
      BY <1>1, <3>1, <3>2
  <2> QED
    BY <2>1, <2>2
<1>2. 5 * Len(tree) \in Nat /\ IdRank \in [Ids -> 0..(5 * Len(tree))]
  BY RankFacts DEF ConvInv
<1> HIDE DEF Fine
<1>3. Ids \subseteq Fine
  BY <1>1, <1>2, RankInduction
<1> QED
  BY <1>3 DEF Fine

(* The pages are in the order of their texts.                              *)
LEMMA FlatBelow ==
    ASSUME ConvInv, NEW F, Flat(F), NEW x \in Ids, Kind(x) # "Page"
    PROVE  /\ children[x] \in Seq(Ids) /\ Joins(Ids, children[x], F) /\ F[x] = Joined(children[x], F)
           /\ \A z : z \in Range(F[x]) <=> \E y \in Range(children[x]) : z \in Range(F[y])
<1>1. F[x] = Joined(children[x], F) /\ F \in [Ids -> Seq(Ids)]
  BY DEF Flat, FlatAt
<1>2. children[x] \in Seq(Ids) /\ \A y \in Range(children[x]) : y \in Ids
  BY ListsApart, RangeOf
<1>3. Joins(Ids, children[x], F)
  BY <1>1, <1>2 DEF Joins
<1> QED
  BY <1>1, <1>2, <1>3, JoinedFacts

LEMMA PagesInLine ==
    ASSUME ConvInv, ListsRise
    PROVE  Ranked(Pages, Whole)
<1>0. PICK F : Flat(F)
  BY FlatIs
<1> DEFINE Fine == {x \in Ids : Range(F[x]) \subseteq Under(x) /\ Ranked(F[x], Whole)}
<1>1. ASSUME NEW x \in Ids, \A y \in Ids : IdRank[y] > IdRank[x] => y \in Fine
      PROVE  x \in Fine
  <2>1. CASE Kind(x) = "Page"
    <3>1. F[x] = <<x>>
      BY <1>0, <2>1 DEF Flat, FlatAt
    <3>2. Range(<<x>>) = {x} /\ Ranked(<<x>>, Whole) /\ x \in Under(x)
      BY OneMember, RankedSmall, UnderFacts
    <3> QED
      BY <3>1, <3>2
  <2>2. CASE Kind(x) # "Page"
    <3>1. /\ children[x] \in Seq(Ids) /\ Joins(Ids, children[x], F) /\ F[x] = Joined(children[x], F)
          /\ \A z : z \in Range(F[x]) <=> \E y \in Range(children[x]) : z \in Range(F[y])
      BY <1>0, <2>2, FlatBelow
    <3>2. Ranked(children[x], Whole)
      BY <2>2, ListsInLine DEF InLine
    <3>3. \A y \in Range(children[x]) : y \in Ids /\ y > 0 /\ IdRank[y] > IdRank[x] /\ Under(y) \subseteq Under(x)
      BY KidFacts, UnderFacts DEF Kids
    <3>4. \A y \in Range(children[x]) : Range(F[y]) \subseteq Under(y) /\ Ranked(F[y], Whole)
      BY <1>1, <3>3
    <3>5. \A y \in Range(children[x]) : \A z \in Range(F[y]) : Whole[z] \subseteq Whole[y]
      <4> TAKE y \in Range(children[x])
      <4> TAKE z \in Range(F[y])
      <4>1. y \in Ids /\ y # 0 /\ z \in Under(y)
        BY <3>3, <3>4
      <4>2. Under(z) \subseteq Under(y) /\ z \in Ids
        BY <4>1, UnderTrans, UnderFacts
      <4> QED
        BY <4>1, <4>2 DEF Whole
    <3>6. Ranked(F[x], Whole)
      BY <3>1, <3>2, <3>4, <3>5, JoinedRanked
    <3>7. Range(F[x]) \subseteq Under(x)
      BY <3>1, <3>3, <3>4
    <3> QED
      BY <3>6, <3>7
  <2> QED
    BY <2>1, <2>2
<1>2. 5 * Len(tree) \in Nat /\ IdRank \in [Ids -> 0..(5 * Len(tree))]
  BY RankFacts DEF ConvInv
<1> HIDE DEF Fine
<1>3. Ids \subseteq Fine
  BY <1>1, <1>2, RankInduction
<1>4. 0 \in Ids /\ Pages = F[0]
  BY <1>0, IdNumbers DEF Flat, ConvInv
<1> QED
  BY <1>3, <1>4 DEF Fine

-----------------------------------------------------------------------------
(* Tasks and flowables in the order of the texts they stand for.           *)
Row(s, m) == \A i, j \in 1..Len(s) : i < j => AllIn(m[s[i].id], m[s[j].id])

LEMMA RowFollow ==
    ASSUME NEW s, NEW t, NEW m, IsList(s), IsList(t), Row(s, m), Row(t, m),
           \A x \in Range(s), y \in Range(t) : AllIn(m[x.id], m[y.id])
    PROVE  Row(s \o t, m)
<1> DEFINE M == [e \in Range(s) \cup Range(t) |-> m[e.id]]
           u == s \o t
<1>0. Places(s) /\ Places(t) /\ Places(u) /\ Range(u) = Range(s) \cup Range(t)
  BY ListFollows, ListConcat
<1>1. /\ \A i \in 1..Len(s) : s[i] \in Range(s)
      /\ \A i \in 1..Len(t) : t[i] \in Range(t)
      /\ \A i \in 1..Len(u) : u[i] \in Range(u)
  BY <1>0 DEF Places
<1>2. \A e \in Range(s) \cup Range(t) : M[e] = m[e.id]
  OBVIOUS
<1> HIDE DEF M
<1>3. Ranked(s, M) /\ Ranked(t, M)
  <2>1. /\ \A i \in 1..Len(s) : M[s[i]] = m[s[i].id]
        /\ \A i \in 1..Len(t) : M[t[i]] = m[t[i].id]
    BY <1>1, <1>2
  <2> QED
    BY <2>1 DEF Ranked, Row
<1>4. \A x \in Range(s), y \in Range(t) : AllIn(M[x], M[y])
  BY <1>2
<1>5. Ranked(u, M)
  BY <1>3, <1>4, RankedFollow
<1> HIDE DEF u
<1>6. Row(u, m)
  BY <1>0, <1>1, <1>2, <1>5 DEF Ranked, Row
<1> QED
  BY <1>6 DEF u

LEMMA RowTail ==
    ASSUME NEW w, IsList(w), w # <<>>, NEW m, Row(w, m)
    PROVE  Row(Tail(w), m) /\ \A t \in Range(Tail(w)) : AllIn(m[Head(w).id], m[t.id])
<1> DEFINE n == Len(w)
           r == Tail(w)
<1>1. n \in Nat \ {0} /\ Len(r) = n - 1 /\ Head(w) = w[1] /\ \A i \in 1..(n - 1) : r[i] = w[i + 1]
  BY TailPlaces
<1>2. Places(r)
  BY ListPlaces
<1> HIDE DEF n, r
<1>3. ASSUME NEW i \in 1..(n - 1), NEW j \in 1..(n - 1), i < j PROVE AllIn(m[r[i].id], m[r[j].id])
  <2>1. i + 1 \in 1..n /\ j + 1 \in 1..n /\ i + 1 < j + 1 /\ r[i] = w[i + 1] /\ r[j] = w[j + 1]
    BY <1>1, <1>3
  <2> QED
    BY <2>1 DEF Row, n
<1>4. ASSUME NEW i \in 1..(n - 1) PROVE AllIn(m[w[1].id], m[r[i].id])
  <2>1. 1 \in 1..n /\ i + 1 \in 1..n /\ 1 < i + 1 /\ r[i] = w[i + 1]
    BY <1>1
  <2> QED
    BY <2>1 DEF Row, n
<1>5. Row(r, m)
  BY <1>1, <1>3 DEF Row
<1>6. \A t \in Range(r) : \E i \in 1..(n - 1) : t = r[i]
  <2>1. DOMAIN r = 1..(n - 1)
    BY <1>1, <1>2 DEF Places
  <2> QED
    BY <2>1 DEF Range
<1>7. \A t \in Range(r) : AllIn(m[Head(w).id], m[t.id])
  BY <1>1, <1>4, <1>6
<1> QED
  BY <1>5, <1>7 DEF r

LEMMA RowMade ==
    ASSUME NEW seq, NEW m, Ranked(seq, m), NEW f, Len(f) = Len(seq), \A i \in 1..Len(seq) : f[i].id = seq[i]
    PROVE  Row(f, m)
BY DEF Row, Ranked

LEMMA RowSmall ==
    ASSUME NEW m
    PROVE  Row(<<>>, m) /\ \A e : Row(<<e>>, m)
<1>1. Len(<<>>) = 0 /\ \A e : Len(<<e>>) = 1
  OBVIOUS
<1>2. Row(<<>>, m)
  BY <1>1 DEF Row
<1>3. ASSUME NEW e PROVE Row(<<e>>, m)
  <2>1. \A i, j \in 1..1 : ~(i < j)
    OBVIOUS
  <2> QED
    BY <1>1, <2>1 DEF Row
<1> QED
  BY <1>2, <1>3

(* What is drawn comes before what the tasks and the pages to come draw,   *)
(* and the tasks draw theirs one after the other.                          *)
OrderGoes(w, c, s) ==
    /\ Row(w, Whole) /\ Row(s, Alone)
    /\ \A f \in Range(s), t \in Range(w) : AllIn(Alone[f.id], Whole[t.id])
    /\ \A f \in Range(s), p \in c : AllIn(Alone[f.id], Whole[p])
    /\ \A t \in Range(w), p \in c : AllIn(Whole[t.id], Whole[p])

LEMMA AllInSmaller ==
    ASSUME NEW A, NEW B, AllIn(A, B), NEW S, NEW T, S \subseteq A, T \subseteq B
    PROVE  AllIn(S, T)
BY DEF AllIn

LEMMA OrderDone ==
    ASSUME NEW w, NEW c, NEW s, OrderGoes(w, c, s), IsList(w), IsList(s), w # <<>>,
           NEW fl, IsList(fl), Row(fl, Alone), \A f \in Range(fl) : Alone[f.id] \subseteq Whole[Head(w).id]
    PROVE  OrderGoes(Tail(w), c, s \o fl)
<1> DEFINE h == Whole[Head(w).id]
           r == Tail(w)
           u == s \o fl
<1>1. /\ IsList(r) /\ Range(r) \subseteq Range(w) /\ Head(w) \in Range(w)
      /\ Row(r, Whole) /\ \A t \in Range(r) : AllIn(h, Whole[t.id])
  BY ListTail, RowTail DEF OrderGoes
<1>2. Range(u) = Range(s) \cup Range(fl)
  BY ListConcat
<1>3. \A f \in Range(s) : AllIn(Alone[f.id], h)
  BY <1>1 DEF OrderGoes
<1>4. \A p \in c : AllIn(h, Whole[p])
  BY <1>1 DEF OrderGoes
<1>5. \A f \in Range(fl) : Alone[f.id] \subseteq h
  OBVIOUS
<1> HIDE DEF h, r
<1>6. \A f \in Range(s), g \in Range(fl) : AllIn(Alone[f.id], Alone[g.id])
  BY <1>3, <1>5, AllInSmaller
<1>7. Row(u, Alone)
  BY <1>6, RowFollow DEF OrderGoes
<1> HIDE DEF u
<1>8. \A f \in Range(fl), t \in Range(r) : AllIn(Alone[f.id], Whole[t.id])
  BY <1>1, <1>5, AllInSmaller
<1>9. \A f \in Range(fl), p \in c : AllIn(Alone[f.id], Whole[p])
  BY <1>4, <1>5, AllInSmaller
<1>10. OrderGoes(r, c, u)
  BY <1>1, <1>2, <1>7, <1>8, <1>9 DEF OrderGoes
<1> QED
  BY <1>10 DEF r, u

LEMMA OrderOpened ==
    ASSUME ConvInv, NEW w, NEW c, NEW s, OrderGoes(w, c, s), IsList(w), IsList(s), w # <<>>,
           Head(w).id \in Ids, Head(w).id # 0, NEW v, IsList(v), Inner(Head(w).id, v), Row(v, Whole)
    PROVE  OrderGoes(v \o Tail(w), c, s)
<1> DEFINE h == Whole[Head(w).id]
           r == Tail(w)
           u == v \o r
<1>1. /\ IsList(r) /\ Range(r) \subseteq Range(w) /\ Head(w) \in Range(w)
      /\ Row(r, Whole) /\ \A t \in Range(r) : AllIn(h, Whole[t.id])
  BY ListTail, RowTail DEF OrderGoes
<1>2. Range(u) = Range(v) \cup Range(r)
  BY <1>1, ListConcat
<1>3. (\A f \in Range(s) : AllIn(Alone[f.id], h)) /\ (\A p \in c : AllIn(h, Whole[p]))
  BY <1>1 DEF OrderGoes
<1>4. \A t \in Range(v) : Whole[t.id] \subseteq h
  <2> TAKE t \in Range(v)
  <2>1. CASE t.id = 0
    <3>1. Whole[0] = {}
      <4>1. 0 \in Ids
        BY IdNumbers DEF ConvInv
      <4> QED
        BY <4>1 DEF Whole
    <3> QED
      BY <2>1, <3>1
  <2>2. CASE t.id \in Kids(Head(w).id)
    BY <2>2, WholeKid
  <2> QED
    BY <2>1, <2>2 DEF Inner
<1> HIDE DEF h, r
<1>5. \A t \in Range(v), q \in Range(r) : AllIn(Whole[t.id], Whole[q.id])
  BY <1>1, <1>4, AllInSmaller
<1>6. Row(u, Whole)
  BY <1>1, <1>5, RowFollow
<1> HIDE DEF u
<1>7. \A f \in Range(s), t \in Range(v) : AllIn(Alone[f.id], Whole[t.id])
  BY <1>3, <1>4, AllInSmaller
<1>8. \A t \in Range(v), p \in c : AllIn(Whole[t.id], Whole[p])
  BY <1>3, <1>4, AllInSmaller
<1>9. OrderGoes(u, c, s)
  BY <1>1, <1>2, <1>6, <1>7, <1>8 DEF OrderGoes
<1> QED
  BY <1>9 DEF u, r

LEMMA SameRow ==
    ASSUME TreeIsFile, NEW x \in Ids, NEW s, IsList(s), \A f \in Range(s) : f.id = x
    PROVE  Row(s, Alone)
<1>1. AllIn(Alone[x], Alone[x])
  <2>1. Alone[x] \subseteq {x} \cap Texts /\ Texts \subseteq Nodes
    BY DEF Alone, Texts
  <2>2. x \in Texts => InOrder(x, x)
    BY <2>1, InOrderOnce
  <2> QED
    BY <2>1, <2>2 DEF AllIn
<1>2. \A i \in 1..Len(s) : s[i].id = x
  <2>1. DOMAIN s = 1..Len(s)
    BY ListPlaces DEF Places
  <2> QED
    BY <2>1 DEF Range
<1> QED
  BY <1>1, <1>2 DEF Row

LEMMA NoTextAlone ==
    ASSUME NEW x \in Ids, ~IsText(x)
    PROVE  Alone[x] = {}
BY DEF Alone, Texts

LEMMA OrderPage ==
    ASSUME ConvInv, NEW c, NEW s, OrderGoes(<<>>, c, s), IsList(s), NEW p \in c, p \in Ids, Kind(p) = "Page",
           \A q \in c \ {p} : AllIn(Whole[p], Whole[q]),
           NEW v, IsList(v), MadeOf(v, Kids(p)), Row(v, Whole),
           NEW fl, IsList(fl), \A f \in Range(fl) : f.id = p
    PROVE  OrderGoes(v, c \ {p}, s \o fl)
<1> DEFINE u == s \o fl
<1>1. Range(u) = Range(s) \cup Range(fl)
  BY ListConcat
<1>2. Alone[p] = {} /\ p # 0
  BY NoTextAlone DEF IsText, Kind
<1>3. \A f \in Range(fl) : Alone[f.id] = {}
  BY <1>2
<1>4. \A S : AllIn({}, S) /\ AllIn(S, {})
  BY DEF AllIn
<1>5. Row(fl, Alone)
  BY SameRow DEF ConvInv
<1>6. Row(u, Alone)
  BY <1>3, <1>4, <1>5, RowFollow DEF OrderGoes
<1>7. \A t \in Range(v) : Whole[t.id] \subseteq Whole[p]
  BY <1>2, WholeKid DEF MadeOf
<1>8. \A f \in Range(s) : AllIn(Alone[f.id], Whole[p])
  BY DEF OrderGoes
<1>9. \A f \in Range(s), q \in c : AllIn(Alone[f.id], Whole[q])
  BY DEF OrderGoes
<1> HIDE DEF u
<1>10. \A f \in Range(u), t \in Range(v) : AllIn(Alone[f.id], Whole[t.id])
  <2>1. \A f \in Range(s), t \in Range(v) : AllIn(Alone[f.id], Whole[t.id])
    BY <1>7, <1>8, AllInSmaller
  <2> QED
    BY <1>1, <1>3, <1>4, <2>1
<1>11. \A f \in Range(u), q \in c \ {p} : AllIn(Alone[f.id], Whole[q])
  BY <1>1, <1>3, <1>4, <1>9
<1>12. \A t \in Range(v), q \in c \ {p} : AllIn(Whole[t.id], Whole[q])
  BY <1>7, AllInSmaller
<1>13. OrderGoes(v, c \ {p}, u)
  BY <1>6, <1>10, <1>11, <1>12 DEF OrderGoes
<1> QED
  BY <1>13 DEF u

LEMMA PagesFollow ==
    ASSUME ConvInv, ListsRise, NEW n \in Nat \ {0}, n <= Len(Pages)
    PROVE  \A q \in ComingFrom(n + 1) : AllIn(Whole[Pages[n]], Whole[q])
<1>1. Len(Pages) \in Nat
  BY PagesFacts, LenProperties
<1> TAKE q \in ComingFrom(n + 1)
<1>2. PICK k \in (n + 1)..Len(Pages) : q = Pages[k]
  BY DEF ComingFrom
<1>3. n \in 1..Len(Pages) /\ k \in 1..Len(Pages) /\ n < k
  BY <1>1
<1> QED
  BY <1>2, <1>3, PagesInLine DEF Ranked

OrderStory == OrderGoes(work, ComingFrom(page), story)
OrderNext  == OrderGoes(work', ComingFrom(page'), story')

LEMMA RowTasks ==
    ASSUME NEW seq \in Seq(Ids), NEW m, Ranked(seq, m), NEW level
    PROVE  Row(Tasks(seq, level), m)
<1> DEFINE f == Tasks(seq, level)
<1>1. Len(seq) \in Nat /\ DOMAIN seq = 1..Len(seq)
  BY LenProperties
<1>2. DOMAIN f = 1..Len(seq) /\ \A i \in 1..Len(seq) : f[i].id = seq[i]
  BY <1>1 DEF Tasks, Task
<1>3. IsList(f)
  <2>1. f = [i \in 1..Len(seq) |-> f[i]]
    BY <1>1 DEF Tasks
  <2> HIDE DEF f
  <2> QED
    BY <1>1, <2>1, ListMade
<1> HIDE DEF f
<1>4. Len(f) = Len(seq)
  <2>1. Len(f) \in Nat /\ DOMAIN f = 1..Len(f)
    BY <1>3, ListPlaces DEF Places
  <2> QED
    BY <1>1, <1>2, <2>1
<1>5. Row(f, m)
  BY <1>2, <1>4, RowMade
<1> QED
  BY <1>5 DEF f

LEMMA RowItems ==
    ASSUME NEW elem, contents[elem] \in Seq(Ids), NEW m, Ranked(contents[elem], m), NEW level, NEW marker
    PROVE  Row(ItemTasks(elem, level, marker), m)
<1> DEFINE seq == contents[elem]
           f == ItemTasks(elem, level, marker)
<1>1. Len(seq) \in Nat /\ DOMAIN seq = 1..Len(seq) /\ Ranked(seq, m)
  BY LenProperties
<1>2. DOMAIN f = 1..Len(seq) /\ \A i \in 1..Len(seq) : f[i].id = seq[i]
  BY <1>1 DEF ItemTasks, Task
<1>3. IsList(f)
  <2>1. f = [i \in 1..Len(seq) |-> f[i]]
    BY <1>1 DEF ItemTasks
  <2> HIDE DEF f, seq
  <2> QED
    BY <1>1, <2>1, ListMade
<1> HIDE DEF f, seq
<1>4. Len(f) = Len(seq)
  <2>1. Len(f) \in Nat /\ DOMAIN f = 1..Len(f)
    BY <1>3, ListPlaces DEF Places
  <2> QED
    BY <1>1, <1>2, <2>1
<1>5. Row(f, m)
  BY <1>1, <1>2, <1>4, RowMade
<1> QED
  BY <1>5 DEF f

LEMMA DoneOrder ==
    ASSUME MarksGo, OrderStory, work # <<>>, NEW fl, Done(fl), IsList(fl), Row(fl, Alone),
           \A f \in Range(fl) : Alone[f.id] \subseteq Whole[top.id]
    PROVE  OrderNext
<1>1. work' = Tail(work) /\ story' = story \o fl /\ page' = page
  BY DEF Done
<1>2. IsList(work) /\ IsList(story)
  BY WorkFacts, TopStands
<1>3. OrderGoes(Tail(work), ComingFrom(page), story \o fl)
  BY <1>2, OrderDone DEF OrderStory, top
<1> QED
  BY <1>1, <1>3 DEF OrderNext

LEMMA ShownOrder ==
    ASSUME MarksGo, OrderStory, work # <<>>, top.id # 0, NEW fl, Done(fl), IsList(fl),
           \A f \in Range(fl) : f.id = top.id
    PROVE  OrderNext
<1>1. top.id \in Ids /\ top.id \in Under(top.id) /\ TreeIsFile
  BY TopStands DEF MarksGo, ConvInv
<1>2. Alone[top.id] \subseteq Whole[top.id]
  BY <1>1 DEF Alone, Whole
<1>3. Row(fl, Alone)
  BY <1>1, SameRow
<1> QED
  BY <1>2, <1>3, DoneOrder

LEMMA EndOutlineOrder ==
    ASSUME MarksGo, OrderStory, EndOutline
    PROVE  OrderNext
<1>1. work # <<>> /\ work' = Tail(work) /\ story' = story /\ page' = page
  BY DEF EndOutline
<1>2. IsList(work) /\ IsList(story)
  BY <1>1, WorkFacts, TopStands
<1>3. IsList(<<>>) /\ Range(<<>>) = {} /\ Row(<<>>, Alone)
  BY ListSmall, RowSmall
<1>4. OrderGoes(Tail(work), ComingFrom(page), story \o <<>>)
  BY <1>1, <1>2, <1>3, OrderDone DEF OrderStory
<1>5. story \o <<>> = story
  BY <1>2, <1>3, ListAssoc
<1> QED
  BY <1>1, <1>4, <1>5 DEF OrderNext

LEMMA RenderTextOrder ==
    ASSUME MarksGo, OrderStory, RenderText
    PROVE  OrderNext
<1> DEFINE f  == Flowable("text", top.id, top.marker, top.tags, tree[top.id].lines)
           fl == IF tree[top.id].text THEN <<f>> ELSE <<>>
<1>1. work # <<>> /\ top.id > 0 /\ Done(fl)
  BY DEF RenderText, Rendering
<1>2. top.id # 0
  BY <1>1, TopStands
<1>3. f.id = top.id
  BY DEF Flowable
<1> HIDE DEF f
<1>4. IsList(fl) /\ \A e \in Range(fl) : e.id = top.id
  BY <1>3, ListSmall
<1> HIDE DEF fl
<1> QED
  BY <1>1, <1>2, <1>4, ShownOrder

LEMMA OtherOrder ==
    ASSUME MarksGo, OrderStory, RenderImage \/ RenderFile \/ PassElement
    PROVE  OrderNext
<1> DEFINE x == top.id
<1>1. work # <<>> /\ x > 0 /\ ConvInv
  BY DEF RenderImage, RenderFile, PassElement, Rendering, MarksGo
<1>2. x \in Ids /\ x # 0
  BY <1>1, TopStands
<1>3. /\ ShownAs(<<>>, x) /\ \A what : ShownAs(Icons(x) \o <<Plain(what, x)>>, x)
  BY <1>1, <1>2, PlainFacts, IconsStand DEF PlainStory, ShownAs
<1>4. \E fl : Done(fl) /\ ShownAs(fl, x)
  <2>1. CASE RenderImage
    <3> DEFINE what == IF data[x] = NoData THEN "words" ELSE "picture"
               shown == Icons(x) \o <<Plain(what, x)>>
    <3>1. Done(IF options.images THEN shown ELSE <<>>)
      BY <2>1 DEF RenderImage
    <3>2. ShownAs(shown, x)
      BY <1>3
    <3> HIDE DEF shown
    <3> QED
      BY <1>3, <3>1, <3>2
  <2>2. CASE RenderFile
    <3> DEFINE shown == Icons(x) \o <<Plain("words", x)>>
    <3>1. Done(shown)
      BY <2>2 DEF RenderFile
    <3>2. ShownAs(shown, x)
      BY <1>3
    <3> HIDE DEF shown
    <3> QED
      BY <3>1, <3>2
  <2>3. CASE PassElement
    <3>1. Done(<<>>)
      BY <2>3 DEF PassElement
    <3> QED
      BY <1>3, <3>1
  <2> QED
    BY <2>1, <2>2, <2>3
<1>5. PICK fl : Done(fl) /\ ShownAs(fl, x)
  BY <1>4
<1>6. IsList(fl) /\ \A f \in Range(fl) : f.id = x
  BY <1>5 DEF ShownAs, StoryStands
<1> QED
  BY <1>1, <1>2, <1>5, <1>6, ShownOrder

LEMMA RenderPageOrder ==
    ASSUME MarksGo, ListsRise, OrderStory, RenderPage
    PROVE  OrderNext
<1> DEFINE p == Pages[page]
           b == IF page = 1 THEN <<>> ELSE <<Plain("break", p)>>
           h == IF tree[p].text THEN <<Plain("heading", p)>> ELSE <<>>
           v == Tasks(PageItems(p), 0)
           c == ComingFrom(page)
           fl == b \o h
<1>1. /\ work = <<>> /\ page \in Nat \ {0} /\ page <= Len(Pages) /\ ConvInv
      /\ story' = (story \o b) \o h /\ work' = v /\ page' = page + 1
  BY DEF RenderPage, MarksGo
<1>2. OrderGoes(<<>>, c, story) /\ IsList(story)
  BY <1>1 DEF OrderStory, MarksGo, StoryGoes, StoryStands
<1>3. p \in c /\ p \in Range(Pages) /\ ComingFrom(page + 1) = c \ {p}
  BY <1>1, NextPages
<1>4. p \in Ids /\ Kind(p) = "Page" /\ \A q \in c \ {p} : AllIn(Whole[p], Whole[q])
  BY <1>1, <1>3, PagesFacts, PagesFollow
<1>5. PageItems(p) \in Seq(Ids) /\ Unrelated(PageItems(p)) /\ Range(PageItems(p)) \subseteq Kids(p)
  BY <1>1, <1>4, PageItemsStand
<1>6. \A y \in Range(PageItems(p)) : y > 0 /\ y # 0
  BY <1>1, <1>4, <1>5, KidFacts
<1>7. PlainStory(b, p) /\ PlainStory(h, p)
  BY PlainFacts
<1>8. Ranked(PageItems(p), Whole)
  BY <1>1, <1>4, PageInLine
<1> HIDE DEF p, b, h, c
<1>9. WorkStands(v) /\ MadeOf(v, Range(PageItems(p))) /\ Row(v, Whole)
  BY <1>1, <1>5, <1>6, <1>8, TasksStand, RowTasks
<1> HIDE DEF v
<1>10. MadeOf(v, Kids(p)) /\ IsList(v)
  BY <1>5, <1>9 DEF MadeOf, WorkStands
<1>11. ShownAs(fl, p)
  BY <1>7, PlainFollow DEF ShownAs, PlainStory
<1>12. fl = b \o h
  OBVIOUS
<1> HIDE DEF fl
<1>13. IsList(fl) /\ \A f \in Range(fl) : f.id = p
  BY <1>11 DEF ShownAs, StoryStands
<1>14. OrderGoes(v, c \ {p}, story \o fl)
  BY <1>1, <1>2, <1>3, <1>4, <1>9, <1>10, <1>13, OrderPage
<1>15. IsList(b) /\ IsList(h)
  BY <1>7 DEF StoryStands, PlainStory
<1>16. (story \o b) \o h = story \o fl
  BY <1>2, <1>12, <1>15, ListAssoc
<1> QED
  BY <1>1, <1>3, <1>14, <1>16 DEF OrderNext

LEMMA OpenedOrder ==
    ASSUME MarksGo, OrderStory, work # <<>>, top.id > 0, NEW v, IsList(v), Inner(top.id, v), Row(v, Whole),
           work' = v \o Tail(work), story' = story, page' = page
    PROVE  OrderNext
<1>1. ConvInv /\ IsList(work) /\ IsList(story) /\ top.id \in Ids /\ top.id # 0
  BY WorkFacts, TopStands
<1>2. OrderGoes(v \o Tail(work), ComingFrom(page), story)
  BY <1>1, OrderOpened DEF OrderStory, top
<1> QED
  BY <1>2 DEF OrderNext

LEMMA NothingWhole ==
    ASSUME ConvInv
    PROVE  Whole[0] = {} /\ \A S : AllIn({}, S) /\ AllIn(S, {})
<1>1. 0 \in Ids
  BY IdNumbers DEF ConvInv
<1> QED
  BY <1>1 DEF Whole, AllIn

LEMMA RenderOutlineOrder ==
    ASSUME MarksGo, ListsRise, OrderStory, RenderOutline
    PROVE  OrderNext
<1> DEFINE x == top.id
           k == Tasks(children[x], 0)
           v == k \o <<EndTask>>
<1>1. /\ work # <<>> /\ x > 0 /\ Kind(x) = "Outline" /\ ConvInv
      /\ work' = (k \o <<EndTask>>) \o Tail(work) /\ story' = story /\ page' = page
  BY DEF RenderOutline, Rendering, MarksGo
<1>2. x \in Ids
  BY <1>1, TopStands
<1>3. children[x] \in Seq(Ids) /\ Unrelated(children[x]) /\ Range(children[x]) \subseteq Kids(x)
  BY <1>1, <1>2, ListsApart, KidsSeparate DEF Kids
<1>4. \A y \in Range(children[x]) : y > 0
  BY <1>1, <1>2, <1>3, KidFacts
<1>5. InLine(x)
  BY <1>1, <1>2, ListsInLine
<1>6. WorkStands(k) /\ MadeOf(k, Range(children[x])) /\ Row(k, Whole)
  BY <1>1, <1>3, <1>4, <1>5, TasksStand, RowTasks DEF InLine
<1> HIDE DEF k
<1>7. /\ IsList(<<EndTask>>) /\ Range(<<EndTask>>) = {EndTask} /\ EndTask.id = 0 /\ Row(<<EndTask>>, Whole)
  BY <1>1, EndTaskStands, RowSmall DEF WorkStands
<1>8. IsList(k)
  BY <1>6 DEF WorkStands
<1>9. \A a \in Range(k), e \in Range(<<EndTask>>) : AllIn(Whole[a.id], Whole[e.id])
  BY <1>1, <1>7, NothingWhole
<1>10. IsList(v) /\ Range(v) = Range(k) \cup {EndTask} /\ Row(v, Whole)
  BY <1>6, <1>7, <1>8, <1>9, ListConcat, RowFollow
<1>11. work' = v \o Tail(work)
  BY <1>1
<1> HIDE DEF v
<1>12. Inner(x, v)
  BY <1>3, <1>6, <1>7, <1>10 DEF Inner, MadeOf
<1> QED
  BY <1>1, <1>10, <1>11, <1>12, OpenedOrder

LEMMA RenderElementOrder ==
    ASSUME MarksGo, ListsRise, OrderStory, RenderElement
    PROVE  OrderNext
<1> DEFINE x == top.id
           level  == top.level
           marker == IF lists = <<>> THEN NoMarker ELSE Marker(Head(lists), x, level)
           items  == IF marker = NoMarker THEN Tasks(contents[x], level) ELSE ItemTasks(x, level, marker)
           kids   == Tasks(children[x], level + 1)
           v == items \o kids
           u == v \o Tail(work)
<1>1. /\ work # <<>> /\ x > 0 /\ Kind(x) = "OutlineElement" /\ ConvInv
      /\ work' = u /\ story' = story /\ page' = page
  BY DEF RenderElement, Rendering, MarksGo
<1>2. x \in Ids
  BY <1>1, TopStands
<1>3. /\ children[x] \in Seq(Ids) /\ Unrelated(children[x]) /\ Range(children[x]) \subseteq Kids(x)
      /\ contents[x] \in Seq(Ids) /\ Unrelated(contents[x]) /\ Range(contents[x]) \subseteq Kids(x)
  BY <1>1, <1>2, ListsApart, KidsSeparate DEF Kids
<1>4. \A y \in Range(children[x]) \cup Range(contents[x]) : y > 0
  BY <1>1, <1>2, <1>3, KidFacts
<1>5. /\ Ranked(children[x], Whole) /\ Ranked(contents[x], Whole)
      /\ \A a \in Range(contents[x]), b \in Range(children[x]) : AllIn(Whole[a], Whole[b])
  BY <1>1, <1>2, ListsInLine DEF InLine
<1> HIDE DEF x, level
<1>6. WorkStands(kids) /\ MadeOf(kids, Range(children[x])) /\ Row(kids, Whole)
  BY <1>1, <1>3, <1>4, <1>5, TasksStand, RowTasks
<1>7. WorkStands(items) /\ MadeOf(items, Range(contents[x])) /\ Row(items, Whole)
  <2> HIDE DEF marker
  <2>1. CASE marker = NoMarker
    <3>1. items = Tasks(contents[x], level)
      BY <2>1
    <3> QED
      BY <1>1, <1>3, <1>4, <1>5, <2>1, <3>1, TasksStand, RowTasks
  <2>2. CASE marker # NoMarker
    <3>1. items = ItemTasks(x, level, marker)
      BY <2>2
    <3> QED
      BY <1>1, <1>2, <1>3, <1>5, <3>1, ItemTasksStand, RowItems
  <2> QED
    BY <2>1, <2>2
<1> HIDE DEF kids, items, marker
<1>8. IsList(items) /\ IsList(kids)
  BY <1>6, <1>7 DEF WorkStands
<1>9. \A a \in Range(items), b \in Range(kids) : AllIn(Whole[a.id], Whole[b.id])
  BY <1>5, <1>6, <1>7 DEF MadeOf
<1>10. IsList(v) /\ Range(v) = Range(items) \cup Range(kids) /\ Row(v, Whole)
  BY <1>6, <1>7, <1>8, <1>9, ListConcat, RowFollow
<1>11. work' = v \o Tail(work)
  BY <1>1
<1> HIDE DEF v
<1>12. Inner(x, v)
  BY <1>3, <1>6, <1>7, <1>10 DEF Inner, MadeOf
<1> QED
  BY <1>1, <1>10, <1>11, <1>12, OpenedOrder DEF x

(* A table: its icons, and a flowable for each member of the cells' lists. *)
InnerOf(x) == Joined(Joined(Joined(children[x], children), children), CellContent)
IconsOf(s, x) == IsList(s) /\ \A f \in Range(s) : f.id = x /\ f.lines = 1
PartsOf(s, inner) ==
    /\ IsList(s) /\ Len(s) = Len(inner)
    /\ \A i \in 1..Len(inner) :
         s[i].id = inner[i] /\ s[i].lines = IF Kind(inner[i]) = "RichText" THEN tree[inner[i]].lines ELSE 1
TableShown(fl, x) ==
    \/ fl = <<>> /\ children[x] = <<>>
    \/ \E s, t : fl = s \o t /\ IconsOf(s, x) /\ PartsOf(t, InnerOf(x))

LEMMA IconsLined ==
    ASSUME NEW x
    PROVE  IconsOf(Icons(x), x)
<1> DEFINE f == Flowable("icons", x, NoMarker, Tags(x), 1)
<1>1. f.id = x /\ f.lines = 1
  BY DEF Flowable
<1>2. Icons(x) \in {<<>>, <<f>>}
  BY DEF Icons
<1> HIDE DEF f
<1> QED
  BY <1>1, <1>2, ListSmall DEF IconsOf

LEMMA TableParts ==
    ASSUME MarksGo, RenderTable
    PROVE  work # <<>> /\ top.id > 0 /\ Kind(top.id) = "Table" /\ \E fl : Done(fl) /\ TableShown(fl, top.id)
<1> DEFINE x == top.id
           inner == InnerOf(x)
           whats == [i \in DOMAIN inner |-> IF Kind(inner[i]) = "RichText" THEN "cell" ELSE "words"]
           tags(i)  == IF whats[i] = "cell" THEN Tags(inner[i]) ELSE <<>>
           lines(i) == IF whats[i] = "cell" THEN tree[inner[i]].lines ELSE 1
           parts == [i \in DOMAIN inner |-> Flowable(whats[i], inner[i], NoMarker, tags(i), lines(i))]
           fl == Icons(x) \o parts
           n == Len(inner)
<1>1. /\ work # <<>> /\ x > 0 /\ Kind(x) = "Table" /\ ConvInv
      /\ Done(IF children[x] = <<>> THEN <<>> ELSE fl)
  BY DEF RenderTable, Rendering, MarksGo, InnerOf
<1>2. x \in Ids
  BY <1>1, TopStands
<1> HIDE DEF x
<1>3. inner \in Seq(Ids)
  BY <1>1, <1>2, InnerFacts DEF InnerOf
<1> HIDE DEF inner
<1>4. n \in Nat /\ DOMAIN inner = 1..n
  BY <1>3, LenProperties
<1>5. parts = [i \in 1..n |-> parts[i]] /\ DOMAIN parts = 1..n
      /\ \A i \in 1..n : /\ parts[i] = Flowable(whats[i], inner[i], NoMarker, tags(i), lines(i))
                         /\ whats[i] = IF Kind(inner[i]) = "RichText" THEN "cell" ELSE "words"
                         /\ lines(i) = IF whats[i] = "cell" THEN tree[inner[i]].lines ELSE 1
  BY <1>4
<1> HIDE DEF parts, tags, lines, whats, n
<1>6. IsList(parts)
  BY <1>4, <1>5, ListMade
<1>7. Len(parts) = n
  <2>1. Len(parts) \in Nat /\ DOMAIN parts = 1..Len(parts)
    BY <1>6, ListPlaces DEF Places
  <2> QED
    BY <1>4, <1>5, <2>1
<1>8. \A i \in 1..n : parts[i].id = inner[i]
                      /\ parts[i].lines = IF Kind(inner[i]) = "RichText" THEN tree[inner[i]].lines ELSE 1
  <2> TAKE i \in 1..n
  <2>1. parts[i].id = inner[i] /\ parts[i].lines = lines(i)
    BY <1>5 DEF Flowable
  <2> QED
    BY <1>5, <2>1
<1>9. PartsOf(parts, inner)
  BY <1>6, <1>7, <1>8 DEF PartsOf, n
<1>10. IconsOf(Icons(x), x)
  BY IconsLined
<1>11. TableShown(fl, x)
  BY <1>9, <1>10 DEF TableShown, inner
<1> HIDE DEF fl
<1>12. CASE children[x] = <<>>
  <2>1. Done(<<>>) /\ TableShown(<<>>, x)
    BY <1>1, <1>12 DEF TableShown
  <2> QED
    BY <1>1, <2>1 DEF x
<1>13. CASE children[x] # <<>>
  BY <1>1, <1>11, <1>13 DEF x
<1> QED
  BY <1>12, <1>13

LEMMA TableIds ==
    ASSUME ConvInv, NEW x \in Ids, NEW t, PartsOf(t, InnerOf(x))
    PROVE  /\ InnerOf(x) \in Seq(Ids) /\ IsInjective(InnerOf(x)) /\ Places(t)
           /\ \A z \in Range(InnerOf(x)) : z \in Under(x) /\ z # x
           /\ \A i \in 1..Len(t) : t[i].id = InnerOf(x)[i]
           /\ \A f \in Range(t) : f.id \in Range(InnerOf(x))
<1>1. /\ InnerOf(x) \in Seq(Ids) /\ IsInjective(InnerOf(x))
      /\ \A z \in Range(InnerOf(x)) : z \in Under(x) /\ z # x
  BY InnerFacts DEF InnerOf
<1>2. Places(t) /\ Len(t) \in Nat /\ DOMAIN t = 1..Len(t)
  BY ListPlaces DEF Places, PartsOf
<1>3. \A i \in 1..Len(t) : t[i].id = InnerOf(x)[i] /\ InnerOf(x)[i] \in Range(InnerOf(x))
  BY <1>1, RangeOf DEF PartsOf
<1>4. \A f \in Range(t) : f.id \in Range(InnerOf(x))
  BY <1>2, <1>3 DEF Range
<1> QED
  BY <1>1, <1>2, <1>3, <1>4

LEMMA RenderTableOrder ==
    ASSUME MarksGo, ListsRise, OrderStory, RenderTable
    PROVE  OrderNext
<1>1. work # <<>> /\ top.id > 0 /\ Kind(top.id) = "Table" /\ ConvInv /\ TreeIsFile
  BY TableParts DEF MarksGo, ConvInv
<1>2. PICK fl : Done(fl) /\ TableShown(fl, top.id)
  BY TableParts
<1>3. top.id \in Ids /\ top.id # 0
  BY <1>1, TopStands
<1> DEFINE x == top.id
<1>4. CASE fl = <<>>
  BY <1>1, <1>2, <1>3, <1>4, ListSmall, ShownOrder
<1>5. CASE fl # <<>>
  <2>1. PICK s, t : fl = s \o t /\ IconsOf(s, x) /\ PartsOf(t, InnerOf(x))
    BY <1>2, <1>5 DEF TableShown
  <2>2. Alone[x] = {}
    BY <1>1, <1>3, NoTextAlone DEF IsText
  <2>3. IsList(s) /\ IsList(t) /\ \A f \in Range(s) : f.id = x
    BY <2>1 DEF IconsOf, PartsOf
  <2>4. \A f \in Range(t) : f.id \in Under(x)
    BY <1>1, <1>3, <2>1, TableIds
  <2>5. Ranked(InnerOf(x), Alone)
    BY <1>1, <1>3, InnerInLine DEF InnerOf
  <2>6. Row(t, Alone)
    BY <2>1, <2>5, RowMade DEF PartsOf
  <2>7. Row(s, Alone)
    BY <1>1, <1>3, <2>3, SameRow
  <2>8. \A f \in Range(s), g \in Range(t) : AllIn(Alone[f.id], Alone[g.id])
    BY <2>2, <2>3 DEF AllIn
  <2>9. IsList(fl) /\ Range(fl) = Range(s) \cup Range(t) /\ Row(fl, Alone)
    BY <2>1, <2>3, <2>6, <2>7, <2>8, ListConcat, RowFollow
  <2>10. Under(x) \subseteq Ids /\ Whole[x] = Under(x) \cap Texts
    BY <1>1, <1>3, UnderFacts DEF Whole
  <2>11. \A f \in Range(fl) : Alone[f.id] \subseteq Whole[x]
    <3>1. \A y \in Ids : Alone[y] \subseteq {y} \cap Texts
      BY DEF Alone
    <3> QED
      BY <2>2, <2>3, <2>4, <2>9, <2>10, <3>1
  <2> QED
    BY <1>1, <1>2, <2>9, <2>11, DoneOrder
<1> QED
  BY <1>4, <1>5

LEMMA RendersInOrder ==
    ASSUME MarksGo, ListsRise, OrderStory, StoryNext, ~EndStory, ~Split, ~Build
    PROVE  OrderNext
BY RenderPageOrder, RenderOutlineOrder, EndOutlineOrder, RenderElementOrder, RenderTextOrder, OtherOrder,
   RenderTableOrder DEF StoryNext

-----------------------------------------------------------------------------
(* What is to be seen, one node at a time.                                 *)
CellAbove(i) == \E y \in Path(i) : tree[y].kind = "TableCell"
Seen(i) ==
    LET up == Kind(tree[i].parent) IN
    /\ tree[i].kind \notin {"Title", "Unknown"}
    /\ tree[i].kind \in {"PageSeries", "Page"} <=> up \in {"Section", "PageSeries"}
    /\ tree[i].kind = "TableRow"  <=> up = "Table"
    /\ tree[i].kind = "TableCell" <=> up = "TableRow"
    /\ tree[i].kind \in {"Outline", "Table"} => ~CellAbove(tree[i].parent)

LEMMA SeenFacts ==
    ASSUME TreeIsFile
    PROVE  /\ Visible(0) /\ ~CellAbove(0)
           /\ \A i \in Nodes : /\ Visible(i) <=> Seen(i) /\ Visible(tree[i].parent)
                               /\ CellAbove(i) <=> tree[i].kind = "TableCell" \/ CellAbove(tree[i].parent)
<1>1. \A i : Visible(i) <=> \A x \in Path(i) : Seen(x)
  BY DEF Visible, Seen, CellAbove
<1>2. Path(0) = {} /\ \A i \in Nodes : Path(i) = {i} \cup Path(tree[i].parent)
  BY PathIs
<1>3. ASSUME NEW i \in Nodes
      PROVE  /\ Visible(i) <=> Seen(i) /\ Visible(tree[i].parent)
             /\ CellAbove(i) <=> tree[i].kind = "TableCell" \/ CellAbove(tree[i].parent)
  BY <1>1, <1>2 DEF CellAbove
<1> QED
  BY <1>1, <1>2, <1>3 DEF CellAbove

(* The place of a node that is drawn: what a task is there for.            *)
OpenNode(m) ==
    /\ m \in kept \ {0}
    /\ Visible(tree[m].parent) /\ ~CellAbove(tree[m].parent)
    /\ Kind(tree[m].parent) \in {"Page", "Outline", "OutlineElement"}
Open(x) == x \in Ids \ {0} /\ OpenNode(Maker(x))

LEMMA KeptNode ==
    ASSUME ConvInv, NEW m \in kept \ {0}
    PROVE  m \in Nodes /\ m \in Ids /\ m # 0 /\ Maker(m) = m /\ Kind(m) = tree[m].kind /\ Fitting(m)
<1>1. TreeIsFile /\ Len(tree) \in Nat /\ Nodes = 1..Len(tree)
  BY IdNumbers DEF ConvInv
<1>2. m \in Nodes
  BY <1>1 DEF ConvInv
<1>3. m \in Nat /\ m <= Len(tree) /\ m > 0 /\ m \in Ids
  BY <1>1, <1>2, IdNumbers
<1> QED
  BY <1>1, <1>2, <1>3 DEF Maker, Kind, ConvInv

LEMMA OpenSeen ==
    ASSUME ConvInv, NEW m, OpenNode(m)
    PROVE  /\ tree[m].kind \in Elements
           /\ tree[m].kind \notin {"Title", "TableCell"} => Visible(m)
           /\ tree[m].kind \in {"Title", "TableCell"} => ~Visible(m)
           /\ tree[m].kind # "TableCell" => ~CellAbove(m)
<1>1. m \in Nodes /\ Fitting(m) /\ TreeIsFile
  BY KeptNode DEF OpenNode, ConvInv
<1>2. tree[m].kind \in Elements
  BY <1>1 DEF Fitting, OpenNode, Takes, Containers
<1>3. /\ Visible(m) <=> Seen(m) /\ Visible(tree[m].parent)
      /\ CellAbove(m) <=> tree[m].kind = "TableCell" \/ CellAbove(tree[m].parent)
  BY <1>1, SeenFacts
<1>4. tree[m].kind \notin {"Title", "TableCell"} => Seen(m)
  BY <1>2 DEF Seen, OpenNode, Elements, Containers
<1>5. tree[m].kind \in {"Title", "TableCell"} => ~Seen(m)
  BY DEF Seen, OpenNode
<1> QED
  BY <1>2, <1>3, <1>4, <1>5 DEF OpenNode

(* Nothing under what is not to be seen is to be seen.                     *)
LEMMA HiddenUnder ==
    ASSUME ConvInv, NEW x \in Ids \ {0}, Maker(x) \in Nodes, ~Visible(Maker(x)), NEW z \in Under(x), z \in Nodes
    PROVE  ~Visible(z)
<1>1. TreeIsFile /\ Nodes \subseteq 0..Len(tree)
  BY IdNumbers DEF ConvInv
<1>2. Maker(x) \in Path(z)
  BY UnderPath
<1>3. Path(Maker(x)) \subseteq Path(z)
  BY <1>1, <1>2, PathUp
<1> QED
  BY <1>3 DEF Visible

LEMMA KidNode ==
    ASSUME ConvInv, NEW x \in Ids, NEW y \in Kids(x)
    PROVE  /\ y \in Ids \ {0} /\ Maker(y) \in kept \ {0} /\ Maker(y) \in Nodes
           /\ OfNode(x, y) \/ OfWrapper(x, y)
<1>1. TreeIsFile /\ Len(tree) \in Nat /\ Nodes = 1..Len(tree)
  BY IdNumbers DEF ConvInv
<1>2. y \in Ids /\ y > 0
  BY KidFacts
<1>3. Maker(y) \in Nodes /\ Maker(y) \in kept /\ (OfNode(x, y) \/ OfWrapper(x, y))
  BY KidPlace
<1>4. y # 0 /\ Maker(y) # 0
  BY <1>1, <1>2, <1>3
<1> QED
  BY <1>2, <1>3, <1>4

LEMMA KidsOpen ==
    ASSUME ConvInv, NEW x \in Ids,
           \/ Kind(x) = "Page" /\ Visible(x) /\ ~CellAbove(x)
           \/ Open(x) /\ Kind(x) \in {"Outline", "OutlineElement"}
    PROVE  \A y \in Kids(x) : Open(y)
<1> SUFFICES ASSUME NEW y \in Kids(x)
             PROVE  Open(y)
  OBVIOUS
<1>1. /\ y \in Ids \ {0} /\ Maker(y) \in kept \ {0} /\ Maker(y) \in Nodes
      /\ OfNode(x, y) \/ OfWrapper(x, y)
  BY KidNode
<1>2. TreeIsFile /\ Len(tree) \in Nat /\ Ids = 0..(2 * Len(tree))
  BY IdNumbers DEF ConvInv
<1>3. CASE OfWrapper(x, y)
  <2>1. Kind(x) = "OutlineElement" /\ Maker(y) = Maker(x)
    BY <1>2, <1>3 DEF OfWrapper, Kind
  <2> QED
    BY <1>1, <2>1 DEF Open
<1>4. CASE OfNode(x, y)
  <2>1. x <= Len(tree) /\ tree[Maker(y)].parent = x /\ Maker(x) = x
    BY <1>4 DEF OfNode, Up
  <2>2. Visible(x) /\ ~CellAbove(x) /\ Kind(x) \in {"Page", "Outline", "OutlineElement"}
    <3>1. CASE Kind(x) = "Page" /\ Visible(x) /\ ~CellAbove(x)
      BY <3>1
    <3>2. CASE Open(x) /\ Kind(x) \in {"Outline", "OutlineElement"}
      <4>1. OpenNode(x)
        BY <2>1, <3>2 DEF Open
      <4>2. Kind(x) = tree[x].kind
        BY <4>1, KeptNode DEF OpenNode
      <4> QED
        BY <3>2, <4>1, <4>2, OpenSeen
    <3> QED
      BY <3>1, <3>2
  <2> QED
    BY <1>1, <2>1, <2>2 DEF Open, OpenNode
<1> QED
  BY <1>1, <1>3, <1>4

(* What an element has below it is in its children, but for a list item.   *)
LEMMA NoContents ==
    ASSUME ConvInv, NEW x \in Ids, Kind(x) # "OutlineElement"
    PROVE  Kids(x) = Range(children[x])
<1>1. \A y \in Range(contents[x]) : ContentNode(x, y)
  BY ListNodes
<1>2. Range(contents[x]) = {}
  BY <1>1 DEF ContentNode
<1> QED
  BY <1>2 DEF Kids

LEMMA LeafAlone ==
    ASSUME ConvInv, NEW x \in Ids, Kind(x) \in {"RichText", "Image", "File"}
    PROVE  Under(x) = {x}
<1>1. TreeIsFile /\ Len(tree) \in Nat /\ Ids = 0..(2 * Len(tree))
  BY IdNumbers DEF ConvInv
<1>2. Kids(x) = {}
  <2> SUFFICES ASSUME NEW y \in Kids(x)
               PROVE  FALSE
    OBVIOUS
  <2>1. Maker(y) \in kept \ {0} /\ (OfNode(x, y) \/ OfWrapper(x, y))
    BY KidNode
  <2>2. OfNode(x, y)
    BY <1>1, <2>1 DEF OfWrapper, Kind
  <2>3. tree[Maker(y)].parent = x /\ Fitting(Maker(y))
    BY <2>1, <2>2, KeptNode DEF OfNode, Up
  <2> QED
    BY <2>3 DEF Fitting, Takes, Containers
<1>3. \A z : z \in Under(x) <=> z = x
  BY <1>2, UnderIs DEF Holds
<1> QED
  BY <1>3

LEMMA OpenKinds ==
    ASSUME ConvInv, NEW x, Open(x)
    PROVE  /\ Kind(x) \in Elements /\ x \in Ids /\ x # 0
           /\ Kind(x) # "OutlineElement" =>
                /\ x = Maker(x) /\ OpenNode(x) /\ x \in Nodes /\ Kind(x) = tree[x].kind
                /\ Kind(x) \notin {"Title", "TableCell"} => Visible(x)
                /\ Kind(x) \in {"Title", "TableCell"} => ~Visible(x)
                /\ Kind(x) # "TableCell" => ~CellAbove(x)
<1>1. TreeIsFile /\ Len(tree) \in Nat /\ Ids = 0..(2 * Len(tree)) /\ x \in Ids \ {0} /\ OpenNode(Maker(x))
  BY IdNumbers DEF ConvInv, Open
<1>2. CASE x > Len(tree)
  <2>1. Kind(x) = "OutlineElement"
    BY <1>1, <1>2 DEF Kind
  <2> QED
    BY <1>1, <2>1 DEF Elements, Containers
<1>3. CASE ~(x > Len(tree))
  <2>1. x = Maker(x)
    BY <1>3 DEF Maker
  <2>2. OpenNode(x)
    BY <1>1, <2>1
  <2>3. x \in Nodes /\ Kind(x) = tree[x].kind
    BY <2>2, KeptNode DEF OpenNode
  <2> QED
    BY <1>1, <2>1, <2>2, <2>3, OpenSeen
<1> QED
  BY <1>2, <1>3

(* What a cell leaves of the texts below an element.                       *)
CellNode(m) ==
    /\ m \in kept \ {0}
    /\ Visible(tree[m].parent) /\ CellAbove(tree[m].parent)
    /\ Kind(tree[m].parent) \in {"TableCell", "OutlineElement"}
InCell(x)  == x \in Ids \ {0} /\ CellNode(Maker(x))
Left(x, F) == \A i \in Texts : i \in Range(F[x]) <=> i \in Under(x) /\ Visible(i)

LEMMA CellSeen ==
    ASSUME ConvInv, NEW m, CellNode(m)
    PROVE  /\ tree[m].kind \in Elements
           /\ tree[m].kind \in {"OutlineElement", "RichText", "Image", "File"} => Visible(m)
           /\ tree[m].kind \notin {"OutlineElement", "RichText", "Image", "File"} => ~Visible(m)
           /\ CellAbove(m)
<1>1. m \in Nodes /\ Fitting(m) /\ TreeIsFile
  BY KeptNode DEF CellNode, ConvInv
<1>2. tree[m].kind \in Elements
  BY <1>1 DEF Fitting, CellNode, Takes, Containers
<1>3. /\ Visible(m) <=> Seen(m) /\ Visible(tree[m].parent)
      /\ CellAbove(m) <=> tree[m].kind = "TableCell" \/ CellAbove(tree[m].parent)
  BY <1>1, SeenFacts
<1>4. tree[m].kind \in {"OutlineElement", "RichText", "Image", "File"} => Seen(m)
  BY <1>2 DEF Seen, CellNode
<1>5. tree[m].kind \notin {"OutlineElement", "RichText", "Image", "File"} => ~Seen(m)
  BY <1>2 DEF Seen, CellNode, Elements, Containers
<1> QED
  BY <1>2, <1>3, <1>4, <1>5 DEF CellNode

LEMMA CellKids ==
    ASSUME ConvInv, NEW x \in Ids, InCell(x), Kind(x) = "OutlineElement"
    PROVE  \A y \in Kids(x) : InCell(y)
<1> SUFFICES ASSUME NEW y \in Kids(x)
             PROVE  InCell(y)
  OBVIOUS
<1>1. /\ y \in Ids \ {0} /\ Maker(y) \in kept \ {0} /\ Maker(y) \in Nodes
      /\ OfNode(x, y) \/ OfWrapper(x, y)
  BY KidNode
<1>2. CASE OfWrapper(x, y)
  BY <1>1, <1>2 DEF InCell, OfWrapper
<1>3. CASE OfNode(x, y)
  <2>1. tree[Maker(y)].parent = x /\ Maker(x) = x
    BY <1>3 DEF OfNode, Up
  <2>2. CellNode(x)
    BY <2>1 DEF InCell
  <2>3. Kind(x) = tree[x].kind
    BY <2>2, KeptNode DEF CellNode
  <2>4. Visible(x) /\ CellAbove(x)
    BY <2>2, <2>3, CellSeen
  <2> QED
    BY <1>1, <2>1, <2>4 DEF InCell, CellNode
<1> QED
  BY <1>1, <1>2, <1>3

LEMMA TextIs ==
    ASSUME TreeIsFile, NEW i \in Texts
    PROVE  i \in Nodes /\ i \in Ids /\ i # 0 /\ Kind(i) = "RichText" /\ IsText(i) /\ Maker(i) = i
<1>1. Len(tree) \in Nat /\ Nodes = 1..Len(tree) /\ i \in Nodes /\ IsText(i)
  BY IdNumbers DEF Texts
<1>2. i \in Nat /\ i <= Len(tree) /\ i > 0 /\ i \in Ids
  BY <1>1, IdNumbers
<1> QED
  BY <1>1, <1>2 DEF Maker, IsText

LEMMA CellTexts ==
    ASSUME ConvInv
    PROVE  \A x \in Ids : InCell(x) => Left(x, CellContent)
<1> DEFINE F == CellContent
           Fine == {x \in Ids : InCell(x) => Left(x, F)}
<1>1. TreeIsFile /\ Len(tree) \in Nat /\ Ids = 0..(2 * Len(tree)) /\ \A i \in Texts : i # 0 /\ Kind(i) = "RichText"
  BY IdNumbers, TextIs DEF ConvInv
<1>2. F \in [Ids -> Seq(Ids)] /\ \A x \in Ids : CellStep(x)
  BY CellIs
<1>3. 5 * Len(tree) \in Nat /\ IdRank \in [Ids -> 0..(5 * Len(tree))]
  BY <1>1, RankFacts
<1> HIDE DEF F
<1>4. ASSUME NEW x \in Ids, \A y \in Ids : IdRank[y] > IdRank[x] => y \in Fine, InCell(x)
      PROVE  Left(x, F)
  <2> SUFFICES ASSUME NEW i \in Texts
               PROVE  i \in Range(F[x]) <=> i \in Under(x) /\ Visible(i)
    BY DEF Left
  <2>1. CASE Kind(x) = "OutlineElement"
    <3> DEFINE c == contents[x] \o children[x]
    <3>1. F[x] = Joined(c, F) /\ c \in Seq(Ids) /\ Range(c) = Range(children[x]) \cup Range(contents[x])
      BY <1>2, <2>1, ListsApart DEF CellStep, F
    <3> HIDE DEF c
    <3>2. Range(c) = Kids(x)
      BY <3>1 DEF Kids
    <3>3. \A y \in Kids(x) : y \in Ids /\ IdRank[y] > IdRank[x] /\ InCell(y)
      BY <1>4, <2>1, KidFacts, CellKids
    <3>4. \A y \in Kids(x) : i \in Range(F[y]) <=> i \in Under(y) /\ Visible(i)
      BY <1>4, <3>3 DEF Left
    <3>5. Joins(Ids, c, F)
      BY <1>2, <3>2, <3>3 DEF Joins
    <3>6. i \in Range(F[x]) <=> \E y \in Range(c) : i \in Range(F[y])
      BY <3>1, <3>5, JoinedFacts
    <3>7. i \in Under(x) <=> \E y \in Kids(x) : i \in Under(y)
      <4>1. i # x
        BY <1>1, <2>1
      <4> QED
        BY <4>1, UnderIs DEF Holds
    <3> QED
      BY <3>2, <3>4, <3>6, <3>7
  <2>2. CASE Kind(x) # "OutlineElement"
    <3>1. F[x] \in {<<>>, <<x>>} /\ (IsText(x) => F[x] = <<x>>)
      BY <1>2, <2>2 DEF CellStep, F
    <3>2. Range(<<x>>) = {x} /\ Range(<<>>) = {}
      BY OneMember, RangeEmpty
    <3>3. CellNode(Maker(x)) /\ x # 0
      BY <1>4 DEF InCell
    <3>4. Maker(x) = x /\ x \in Nodes /\ Kind(x) = tree[x].kind
      <4>1. ~(x > Len(tree))
        BY <1>1, <2>2, <3>3 DEF Kind
      <4>2. Maker(x) = x
        BY <4>1 DEF Maker
      <4> QED
        BY <3>3, <4>2, KeptNode DEF CellNode
    <3>5. CASE Kind(x) \in {"RichText", "Image", "File"}
      <4>1. Under(x) = {x} /\ Visible(x)
        BY <3>3, <3>4, <3>5, LeafAlone, CellSeen
      <4>2. i = x => IsText(x)
        BY DEF Texts
      <4> QED
        BY <3>1, <3>2, <4>1, <4>2
    <3>6. CASE Kind(x) \notin {"RichText", "Image", "File"}
      <4>1. ~Visible(x)
        BY <2>2, <3>3, <3>4, <3>6, CellSeen
      <4>2. ~(i \in Under(x) /\ Visible(i))
        BY <3>3, <3>4, <4>1, HiddenUnder DEF Texts
      <4>3. i # x
        BY <1>1, <3>6
      <4> QED
        BY <3>1, <3>2, <4>2, <4>3
    <3> QED
      BY <3>5, <3>6
  <2> QED
    BY <2>1, <2>2
<1>5. \A x \in Ids : (\A y \in Ids : IdRank[y] > IdRank[x] => y \in Fine) => x \in Fine
  BY <1>4
<1>6. Ids \subseteq Fine
  <2> HIDE DEF Fine
  <2> QED
    BY <1>3, <1>5, RankInduction
<1> QED
  BY <1>6 DEF F

LEMMA ChildrenJoined ==
    ASSUME ConvInv, NEW list \in Seq(Ids)
    PROVE  /\ Joined(list, children) \in Seq(Ids)
           /\ \A z : z \in Range(Joined(list, children)) <=> \E x \in Range(list) : z \in Range(children[x])
<1>1. Range(list) \subseteq Ids /\ \A x \in Ids : children[x] \in Seq(Ids)
  BY RangeOf, ListsApart
<1>2. Joins(Ids, list, children)
  BY <1>1 DEF Joins
<1> QED
  BY <1>2, JoinedType, JoinedFacts

LEMMA InnerRange ==
    ASSUME ConvInv, NEW x \in Ids, NEW i
    PROVE  i \in Range(InnerOf(x)) <=>
             \E r \in Range(children[x]) : \E c \in Range(children[r]) : \E y \in Range(children[c]) :
               i \in Range(CellContent[y])
<1> DEFINE rows  == children[x]
           cells == Joined(rows, children)
           found == Joined(cells, children)
<1>1. rows \in Seq(Ids)
  BY ListsApart
<1>2. /\ cells \in Seq(Ids)
      /\ \A z : z \in Range(cells) <=> \E r \in Range(rows) : z \in Range(children[r])
  BY <1>1, ChildrenJoined
<1> HIDE DEF cells
<1>3. /\ found \in Seq(Ids)
      /\ \A z : z \in Range(found) <=> \E c \in Range(cells) : z \in Range(children[c])
  BY <1>2, ChildrenJoined
<1> HIDE DEF found
<1>4. Range(found) \subseteq Ids /\ CellContent \in [Ids -> Seq(Ids)]
  BY <1>3, RangeOf, CellIs
<1>5. Joins(Ids, found, CellContent)
  BY <1>4 DEF Joins
<1>6. i \in Range(Joined(found, CellContent)) <=> \E y \in Range(found) : i \in Range(CellContent[y])
  BY <1>3, <1>5, JoinedFacts
<1>7. InnerOf(x) = Joined(found, CellContent)
  BY DEF InnerOf, found, cells
<1> QED
  BY <1>2, <1>3, <1>6, <1>7

LEMMA UnderOne ==
    ASSUME ConvInv, NEW x \in Ids, NEW i \in Texts, Kind(x) \notin {"OutlineElement", "RichText"}
    PROVE  i \in Under(x) <=> \E y \in Range(children[x]) : i \in Under(y)
<1>1. i # x
  BY TextIs DEF ConvInv
<1>2. Kids(x) = Range(children[x])
  BY NoContents
<1> QED
  BY <1>1, <1>2, UnderIs DEF Holds

LEMMA TableParted ==
    ASSUME ConvInv, NEW x, OpenNode(x), Kind(x) = "Table"
    PROVE  /\ x \in Ids
           /\ \A r \in Range(children[x]) :
                /\ r \in Ids /\ Kind(r) = "TableRow"
                /\ \A c \in Range(children[r]) :
                     /\ c \in Ids /\ Kind(c) = "TableCell"
                     /\ \A y \in Range(children[c]) : y \in Ids /\ InCell(y)
<1>1. TreeIsFile /\ Len(tree) \in Nat /\ Ids = 0..(2 * Len(tree)) /\ x \in Ids /\ x # 0
  BY IdNumbers, KeptNode DEF ConvInv, OpenNode
<1>2. Visible(x) /\ ~CellAbove(x)
  BY OpenSeen, KeptNode DEF OpenNode
<1>3. ASSUME NEW z \in Ids, Kind(z) \notin {"Outline", "OutlineElement"}, NEW y \in Range(children[z])
      PROVE  /\ y \in Ids \ {0} /\ Maker(y) \in kept \ {0} /\ tree[Maker(y)].parent = z
             /\ Kind(y) # "OutlineElement" => Maker(y) = y /\ y \in Nodes /\ Kind(y) = tree[y].kind
  <2>1. /\ y \in Ids \ {0} /\ Maker(y) \in kept \ {0} /\ Maker(y) \in Nodes
        /\ OfNode(z, y) \/ OfWrapper(z, y)
    BY <1>3, KidNode DEF Kids
  <2>2. OfNode(z, y)
    BY <1>1, <1>3, <2>1 DEF OfWrapper, Kind
  <2>3. Kind(y) # "OutlineElement" => Maker(y) = y
    BY <1>1, <2>1 DEF Maker, Kind
  <2> QED
    BY <2>1, <2>2, <2>3, KeptNode DEF OfNode, Up
<1>4. ASSUME NEW r \in Range(children[x])
      PROVE  r \in Ids /\ Kind(r) = "TableRow" /\ Visible(r)
  <2>1. Kind(r) = "TableRow"
    BY <1>1, <1>4, KindsBelow
  <2>2. r \in Ids /\ r \in Nodes /\ tree[r].parent = x /\ tree[r].kind = "TableRow"
    BY <1>1, <1>3, <1>4, <2>1
  <2>3. Seen(r)
    BY <2>2 DEF Seen
  <2> QED
    BY <1>1, <1>2, <2>1, <2>2, <2>3, SeenFacts
<1>5. ASSUME NEW r \in Range(children[x]), NEW c \in Range(children[r])
      PROVE  c \in Ids /\ Kind(c) = "TableCell" /\ Visible(c) /\ CellAbove(c)
  <2>0. r \in Ids /\ Kind(r) = "TableRow" /\ Visible(r)
    BY <1>4
  <2>1. Kind(c) = "TableCell"
    BY <2>0, <1>5, KindsBelow
  <2>2. c \in Ids /\ c \in Nodes /\ tree[c].parent = r /\ tree[c].kind = "TableCell"
    BY <1>3, <1>5, <2>0, <2>1
  <2>3. Seen(c)
    BY <2>0, <2>2 DEF Seen
  <2> QED
    BY <1>1, <2>0, <2>1, <2>2, <2>3, SeenFacts
<1>6. ASSUME NEW r \in Range(children[x]), NEW c \in Range(children[r]), NEW y \in Range(children[c])
      PROVE  y \in Ids /\ InCell(y)
  <2>1. c \in Ids /\ Kind(c) = "TableCell" /\ Visible(c) /\ CellAbove(c)
    BY <1>5
  <2>2. y \in Ids \ {0} /\ Maker(y) \in kept \ {0} /\ tree[Maker(y)].parent = c
    BY <1>3, <1>6, <2>1
  <2> QED
    BY <2>1, <2>2 DEF InCell, CellNode
<1> QED
  BY <1>1, <1>4, <1>5, <1>6

(* The texts of the cells of a table are those of the table to be seen.    *)
LEMMA TableTexts ==
    ASSUME ConvInv, NEW x, OpenNode(x), Kind(x) = "Table"
    PROVE  \A i \in Texts : i \in Range(InnerOf(x)) <=> i \in Under(x) /\ Visible(i)
<1> TAKE i \in Texts
<1>1. x \in Ids
  BY TableParted
<1>2. \A r \in Range(children[x]) : \A c \in Range(children[r]) : \A y \in Range(children[c]) :
        i \in Range(CellContent[y]) <=> i \in Under(y) /\ Visible(i)
  BY TableParted, CellTexts DEF Left
<1>3. \A r \in Range(children[x]) : \A c \in Range(children[r]) :
        i \in Under(c) <=> \E y \in Range(children[c]) : i \in Under(y)
  BY TableParted, UnderOne
<1>4. \A r \in Range(children[x]) : i \in Under(r) <=> \E c \in Range(children[r]) : i \in Under(c)
  BY TableParted, UnderOne
<1>5. i \in Under(x) <=> \E r \in Range(children[x]) : i \in Under(r)
  BY <1>1, UnderOne
<1> QED
  BY <1>1, <1>2, <1>3, <1>4, <1>5, InnerRange

-----------------------------------------------------------------------------
(* The lines drawn so far are those of the texts no task and no page that  *)
(* is still to come stands for.                                            *)
Due(i) == IF Visible(i) THEN tree[i].lines ELSE 0
Draws(fl, x) ==
    /\ Lined(fl)
    /\ \A i \in Texts : LinesDrawn(fl, i) = IF x # 0 /\ i \in Under(x) THEN Due(i) ELSE 0
CountGoes(w, c, s) ==
    /\ Lined(s)
    /\ \A i \in Texts : LinesDrawn(s, i) = IF Past(i, w, c) THEN Due(i) ELSE 0
OpenWork(w)   == \A t \in Range(w) : t.id # 0 => Open(t.id)
Covers(v, S)  == \A y \in S : \E t \in Range(v) : t.id = y

LEMMA DueLines ==
    ASSUME TreeIsFile, NEW i \in Texts
    PROVE  Due(i) \in Nat /\ tree[i].lines \in Nat
<1>1. tree[i] \in TreeNode
  BY TextIs, IdNumbers
<1>2. tree[i].lines \in Nat
  BY <1>1 DEF TreeNode
<1> QED
  BY <1>2 DEF Due

LEMMA HeadOrTail ==
    ASSUME NEW w, IsList(w), w # <<>>
    PROVE  \A t \in Range(w) : t = Head(w) \/ t \in Range(Tail(w))
<1>1. Places(w) /\ Places(Tail(w))
  BY ListPlaces
<1>2. /\ IsList(Tail(w)) /\ Len(w) \in Nat \ {0} /\ Len(Tail(w)) = Len(w) - 1 /\ Head(w) = w[1]
      /\ \A i \in 1..(Len(w) - 1) : Tail(w)[i] = w[i + 1]
  BY TailPlaces
<1> TAKE t \in Range(w)
<1>3. PICK i \in 1..Len(w) : t = w[i]
  BY <1>1 DEF Places
<1>4. CASE i = 1
  BY <1>2, <1>3, <1>4
<1>5. CASE i # 1
  <2>1. i - 1 \in 1..(Len(w) - 1) /\ (i - 1) + 1 = i
    BY <1>2, <1>5
  <2>2. Tail(w)[i - 1] = t /\ i - 1 \in 1..Len(Tail(w))
    BY <1>2, <1>3, <2>1
  <2> QED
    BY <1>1, <1>2, <2>2 DEF Places
<1> QED
  BY <1>4, <1>5

LEMMA CountDone ==
    ASSUME ConvInv, NEW w, NEW c, NEW s, Stands(w, c), w # <<>>, CountGoes(w, c, s),
           NEW fl, Draws(fl, Head(w).id)
    PROVE  CountGoes(Tail(w), c, s \o fl)
<1> DEFINE x == Head(w).id
<1>1. IsList(w) /\ TreeIsFile
  BY DEF Stands, WorkStands, ConvInv
<1>2. Lined(s \o fl) /\ \A i : LinesDrawn(s \o fl, i) = LinesDrawn(s, i) + LinesDrawn(fl, i)
  BY LinesFollow DEF CountGoes, Draws
<1>3. ASSUME NEW i \in Texts
      PROVE  LinesDrawn(s \o fl, i) = IF Past(i, Tail(w), c) THEN Due(i) ELSE 0
  <2>1. /\ LinesDrawn(s, i) = IF Past(i, w, c) THEN Due(i) ELSE 0
        /\ LinesDrawn(fl, i) = IF x # 0 /\ i \in Under(x) THEN Due(i) ELSE 0
        /\ LinesDrawn(s \o fl, i) = LinesDrawn(s, i) + LinesDrawn(fl, i)
        /\ Due(i) \in Nat
    BY <1>1, <1>2, DueLines DEF CountGoes, Draws
  <2>2. CASE x # 0 /\ i \in Under(x)
    <3>1. Past(i, Tail(w), c)
      BY <2>2, PastHead
    <3>2. ~Past(i, w, c)
      BY <1>1, <2>2, ListTail DEF Past
    <3> QED
      BY <2>1, <2>2, <3>1, <3>2
  <2>3. CASE ~(x # 0 /\ i \in Under(x))
    <3>1. Past(i, w, c) <=> Past(i, Tail(w), c)
      <4>1. Past(i, w, c) => Past(i, Tail(w), c)
        BY <1>1, PastTail
      <4>2. Past(i, Tail(w), c) => Past(i, w, c)
        BY <1>1, <2>3, HeadOrTail DEF Past
      <4> QED
        BY <4>1, <4>2
    <3> QED
      BY <2>1, <2>3, <3>1
  <2> QED
    BY <2>2, <2>3
<1> QED
  BY <1>2, <1>3 DEF CountGoes

LEMMA CountOpened ==
    ASSUME ConvInv, NEW w, NEW c, NEW s, Stands(w, c), w # <<>>, Head(w).id # 0, CountGoes(w, c, s),
           ~IsText(Head(w).id),
           NEW v, IsList(v), Inner(Head(w).id, v), Covers(v, Kids(Head(w).id))
    PROVE  CountGoes(v \o Tail(w), c, s)
<1> DEFINE x == Head(w).id
<1>1. /\ IsList(w) /\ x \in Ids /\ IsList(Tail(w)) /\ Range(Tail(w)) \subseteq Range(w)
      /\ Range(v \o Tail(w)) = Range(v) \cup Range(Tail(w))
  BY HeadStands, ListConcat DEF Stands, WorkStands
<1>2. ASSUME NEW i \in Texts
      PROVE  Past(i, w, c) <=> Past(i, v \o Tail(w), c)
  <2>1. Past(i, w, c) => Past(i, v \o Tail(w), c)
    BY PastOpened
  <2>2. ASSUME Past(i, v \o Tail(w), c) PROVE Past(i, w, c)
    <3>1. \A t \in Range(v) : t.id # 0 => i \notin Under(t.id)
      BY <1>1, <2>2 DEF Past
    <3>2. \A y \in Kids(x) : y # 0 /\ i \notin Under(y)
      <4>1. \A y \in Kids(x) : y # 0
        BY <1>1, KidNode
      <4> QED
        BY <3>1, <4>1 DEF Covers
    <3>3. i # x
      BY DEF Texts
    <3>4. i \notin Under(x)
      BY <1>1, <3>2, <3>3, UnderIs DEF Holds
    <3>5. \A t \in Range(Tail(w)) : t.id # 0 => i \notin Under(t.id)
      BY <1>1, <2>2 DEF Past
    <3>6. \A t \in Range(w) : t.id # 0 => i \notin Under(t.id)
      BY <1>1, <3>4, <3>5, HeadOrTail
    <3> QED
      BY <2>2, <3>6 DEF Past
  <2> QED
    BY <2>1, <2>2
<1> QED
  BY <1>2 DEF CountGoes

LEMMA CountPage ==
    ASSUME ConvInv, NEW c, NEW s, c \subseteq Range(Pages), CountGoes(<<>>, c, s), NEW p \in c, p \in Ids,
           Kind(p) = "Page",
           NEW v, IsList(v), MadeOf(v, Kids(p)), Covers(v, Kids(p)),
           NEW fl, Lined(fl), \A f \in Range(fl) : f.id = p
    PROVE  CountGoes(v, c \ {p}, s \o fl)
<1>1. TreeIsFile /\ Range(<<>>) = {} /\ Lined(s)
  BY ListSmall DEF ConvInv, CountGoes
<1>2. Lined(s \o fl) /\ \A i : LinesDrawn(s \o fl, i) = LinesDrawn(s, i) + LinesDrawn(fl, i)
                               /\ LinesDrawn(s, i) \in Nat
  BY <1>1, LinesFollow
<1>3. ASSUME NEW i \in Texts
      PROVE  LinesDrawn(s \o fl, i) = IF Past(i, v, c \ {p}) THEN Due(i) ELSE 0
  <2>1. i # p
    BY <1>1, TextIs
  <2>2. LinesDrawn(fl, i) = 0
    BY <2>1, LinesWithout
  <2>3. LinesDrawn(s \o fl, i) = LinesDrawn(s, i)
    BY <1>2, <2>2
  <2>4. i \in Under(p) <=> \E y \in Kids(p) : i \in Under(y)
    BY <2>1, UnderIs DEF Holds
  <2>5. (\A t \in Range(v) : t.id # 0 => i \notin Under(t.id)) <=> i \notin Under(p)
    BY <2>4 DEF MadeOf, Covers
  <2>6. Past(i, <<>>, c) <=> Past(i, v, c \ {p})
    BY <1>1, <2>5 DEF Past
  <2> QED
    BY <2>3, <2>6 DEF CountGoes
<1> QED
  BY <1>2, <1>3 DEF CountGoes

LEMMA CoversMade ==
    ASSUME NEW seq \in Seq(Ids), NEW f, DOMAIN f = 1..Len(seq), \A i \in 1..Len(seq) : f[i].id = seq[i]
    PROVE  Covers(f, Range(seq))
<1> SUFFICES ASSUME NEW y \in Range(seq)
             PROVE  \E t \in Range(f) : t.id = y
  BY DEF Covers
<1>1. PICK i \in 1..Len(seq) : y = seq[i]
  BY RangeOf
<1>2. f[i] \in Range(f) /\ f[i].id = y
  BY <1>1 DEF Range
<1> QED
  BY <1>2

LEMMA TasksCover ==
    ASSUME NEW seq \in Seq(Ids), NEW level
    PROVE  Covers(Tasks(seq, level), Range(seq))
<1> DEFINE f == Tasks(seq, level)
<1>1. DOMAIN seq = 1..Len(seq)
  OBVIOUS
<1>2. DOMAIN f = 1..Len(seq) /\ \A i \in 1..Len(seq) : f[i].id = seq[i]
  BY <1>1 DEF Tasks, Task
<1> HIDE DEF f
<1>3. Covers(f, Range(seq))
  BY <1>2, CoversMade
<1> QED
  BY <1>3 DEF f

LEMMA ItemsCover ==
    ASSUME NEW elem, contents[elem] \in Seq(Ids), NEW level, NEW marker
    PROVE  Covers(ItemTasks(elem, level, marker), Range(contents[elem]))
<1> DEFINE f == ItemTasks(elem, level, marker)
           seq == contents[elem]
<1>1. DOMAIN seq = 1..Len(seq)
  OBVIOUS
<1>2. DOMAIN f = 1..Len(seq)
  BY <1>1 DEF ItemTasks
<1>3. ASSUME NEW i \in 1..Len(seq) PROVE f[i].id = seq[i]
  BY <1>1 DEF ItemTasks, Task
<1> HIDE DEF f
<1>4. Covers(f, Range(seq))
  BY <1>2, <1>3, CoversMade
<1> QED
  BY <1>4 DEF f

CountStory == CountGoes(work, ComingFrom(page), story) /\ OpenWork(work)
CountNext  == CountGoes(work', ComingFrom(page'), story') /\ OpenWork(work')

LEMMA DoneCount ==
    ASSUME MarksGo, CountStory, work # <<>>, NEW fl, Done(fl), Draws(fl, top.id)
    PROVE  CountNext
<1>1. work' = Tail(work) /\ story' = story \o fl /\ page' = page
  BY DEF Done
<1>2. ConvInv /\ Stands(work, ComingFrom(page)) /\ IsList(work)
  BY WorkFacts
<1>3. CountGoes(Tail(work), ComingFrom(page), story \o fl)
  BY <1>2, CountDone DEF CountStory, top
<1>4. OpenWork(Tail(work))
  BY <1>2, ListTail DEF OpenWork, CountStory
<1> QED
  BY <1>1, <1>3, <1>4 DEF CountNext

LEMMA TopOpen ==
    ASSUME MarksGo, CountStory, work # <<>>, top.id > 0
    PROVE  ConvInv /\ TreeIsFile /\ Open(top.id) /\ top.id \in Ids /\ top.id # 0
<1>1. ConvInv /\ IsList(work) /\ top.id \in Ids /\ top.id # 0
  BY WorkFacts, TopStands
<1>2. Open(top.id)
  BY <1>1, ListTail DEF OpenWork, CountStory, top
<1> QED
  BY <1>1, <1>2 DEF ConvInv

LEMMA DrawsNothing ==
    ASSUME NEW x, NEW fl, Lined(fl), \A f \in Range(fl) : f.id \notin Texts,
           \A i \in Texts : x # 0 /\ i \in Under(x) => ~Visible(i)
    PROVE  Draws(fl, x)
<1>1. \A i \in Texts : LinesDrawn(fl, i) = 0
  BY LinesWithout
<1> QED
  BY <1>1 DEF Draws, Due

LEMMA EndOutlineCount ==
    ASSUME MarksGo, CountStory, EndOutline
    PROVE  CountNext
<1>1. work # <<>> /\ work' = Tail(work) /\ story' = story /\ page' = page /\ top.id = 0
  BY DEF EndOutline, EndTask, Task
<1>2. ConvInv /\ Stands(work, ComingFrom(page)) /\ IsList(work) /\ IsList(story)
  BY <1>1, WorkFacts, TopStands
<1>3. Lined(<<>>) /\ Range(<<>>) = {} /\ IsList(<<>>)
  BY LinesNone, ListSmall
<1>4. Draws(<<>>, Head(work).id)
  BY <1>1, <1>3, DrawsNothing DEF top
<1>5. CountGoes(Tail(work), ComingFrom(page), story \o <<>>)
  BY <1>1, <1>2, <1>4, CountDone DEF CountStory
<1>6. story \o <<>> = story
  BY <1>2, <1>3, ListAssoc
<1>7. OpenWork(Tail(work))
  BY <1>1, <1>2, ListTail DEF OpenWork, CountStory
<1> QED
  BY <1>1, <1>5, <1>6, <1>7 DEF CountNext

LEMMA RenderTextCount ==
    ASSUME MarksGo, CountStory, RenderText
    PROVE  CountNext
<1> DEFINE x  == top.id
           f  == Flowable("text", x, top.marker, top.tags, tree[x].lines)
           fl == IF tree[x].text THEN <<f>> ELSE <<>>
<1>1. work # <<>> /\ x > 0 /\ Kind(x) = "RichText" /\ Done(fl)
  BY DEF RenderText, Rendering
<1>2. ConvInv /\ TreeIsFile /\ Open(x) /\ x \in Ids /\ x # 0
  BY <1>1, TopOpen
<1>3. f.id = x /\ f.lines = tree[x].lines
  BY DEF Flowable
<1> HIDE DEF f
<1>4. Under(x) = {x} /\ x \in Nodes /\ Visible(x)
  BY <1>1, <1>2, LeafAlone, OpenKinds
<1>5. Draws(fl, x)
  <2>1. CASE tree[x].text
    <3>1. x \in Texts
      BY <1>1, <1>4, <2>1 DEF Texts, IsText
    <3>2. f.lines \in Nat
      BY <1>2, <1>3, <3>1, DueLines
    <3>3. Lined(<<f>>) /\ \A i : LinesDrawn(<<f>>, i) = LinesOf(f, i)
      BY <3>2, LinesOne
    <3>4. \A i \in Texts : LinesDrawn(<<f>>, i) = IF i \in Under(x) THEN Due(i) ELSE 0
      BY <1>3, <1>4, <3>3 DEF LinesOf, Due
    <3>5. Draws(<<f>>, x)
      BY <1>2, <3>3, <3>4 DEF Draws
    <3> QED
      BY <2>1, <3>5
  <2>2. CASE ~tree[x].text
    <3>1. x \notin Texts
      BY <2>2 DEF Texts, IsText
    <3>2. Lined(<<>>) /\ Range(<<>>) = {}
      BY LinesNone, ListSmall
    <3>3. Draws(<<>>, x)
      BY <1>4, <3>1, <3>2, DrawsNothing
    <3> QED
      BY <2>2, <3>3
  <2> QED
    BY <2>1, <2>2
<1> HIDE DEF fl
<1> QED
  BY <1>1, <1>5, DoneCount

LinedAs(fl, x) == Lined(fl) /\ \A f \in Range(fl) : f.id = x

LEMMA PlainLined ==
    ASSUME NEW x
    PROVE  /\ LinedAs(<<>>, x) /\ \A what : LinedAs(<<Plain(what, x)>>, x)
           /\ LinedAs(Icons(x), x) /\ \A what : LinedAs(Icons(x) \o <<Plain(what, x)>>, x)
<1>1. LinedAs(<<>>, x)
  BY LinesNone, ListSmall DEF LinedAs
<1>2. ASSUME NEW what PROVE LinedAs(<<Plain(what, x)>>, x)
  <2> DEFINE f == Plain(what, x)
  <2>1. f.id = x /\ f.lines = 1
    BY DEF Plain, Flowable
  <2> HIDE DEF f
  <2>2. Lined(<<f>>) /\ Range(<<f>>) = {f}
    BY <2>1, LinesOne, ListSmall
  <2> QED
    BY <2>1, <2>2 DEF LinedAs, f
<1>3. LinedAs(Icons(x), x)
  BY IconsLined DEF IconsOf, LinedAs, Lined
<1>4. ASSUME NEW what PROVE LinedAs(Icons(x) \o <<Plain(what, x)>>, x)
  <2> DEFINE s == Icons(x)
             t == <<Plain(what, x)>>
  <2>1. LinedAs(s, x) /\ LinedAs(t, x)
    BY <1>2, <1>3
  <2> HIDE DEF s, t
  <2>2. Lined(s \o t) /\ Range(s \o t) = Range(s) \cup Range(t)
    BY <2>1, LinesFollow, ListConcat DEF LinedAs, Lined
  <2>3. LinedAs(s \o t, x)
    BY <2>1, <2>2 DEF LinedAs
  <2> QED
    BY <2>3 DEF s, t
<1> QED
  BY <1>1, <1>2, <1>3, <1>4

LEMMA OtherCount ==
    ASSUME MarksGo, CountStory, RenderImage \/ RenderFile \/ PassElement
    PROVE  CountNext
<1> DEFINE x == top.id
<1>1. work # <<>> /\ x > 0 /\ Kind(x) \in {"Image", "File", "Title", "TableCell"}
  BY DEF RenderImage, RenderFile, PassElement, Rendering
<1>2. ConvInv /\ TreeIsFile /\ Open(x) /\ x \in Ids /\ x # 0
  BY <1>1, TopOpen
<1>3. /\ LinedAs(<<>>, x) /\ \A what : LinedAs(Icons(x) \o <<Plain(what, x)>>, x)
  BY PlainLined
<1>4. \E fl : Done(fl) /\ LinedAs(fl, x)
  <2>1. CASE RenderImage
    <3> DEFINE what == IF data[x] = NoData THEN "words" ELSE "picture"
               shown == Icons(x) \o <<Plain(what, x)>>
    <3>1. Done(IF options.images THEN shown ELSE <<>>)
      BY <2>1 DEF RenderImage
    <3>2. LinedAs(shown, x)
      BY <1>3
    <3> HIDE DEF shown
    <3> QED
      BY <1>3, <3>1, <3>2
  <2>2. CASE RenderFile
    <3> DEFINE shown == Icons(x) \o <<Plain("words", x)>>
    <3>1. Done(shown)
      BY <2>2 DEF RenderFile
    <3>2. LinedAs(shown, x)
      BY <1>3
    <3> HIDE DEF shown
    <3> QED
      BY <3>1, <3>2
  <2>3. CASE PassElement
    <3>1. Done(<<>>)
      BY <2>3 DEF PassElement
    <3> QED
      BY <1>3, <3>1
  <2> QED
    BY <2>1, <2>2, <2>3
<1>5. PICK fl : Done(fl) /\ LinedAs(fl, x)
  BY <1>4
<1>6. x \notin Texts
  BY <1>1, <1>2, TextIs
<1>7. \A i \in Texts : i \in Under(x) => ~Visible(i)
  <2>1. CASE Kind(x) \in {"Image", "File"}
    BY <1>2, <1>6, <2>1, LeafAlone
  <2>2. CASE Kind(x) \in {"Title", "TableCell"}
    <3>1. x = Maker(x) /\ x \in Nodes /\ ~Visible(x)
      BY <1>2, <2>2, OpenKinds
    <3> QED
      BY <1>2, <3>1, HiddenUnder DEF Texts
  <2> QED
    BY <1>1, <2>1, <2>2
<1>8. Draws(fl, x)
  BY <1>5, <1>6, <1>7, DrawsNothing DEF LinedAs
<1> QED
  BY <1>1, <1>5, <1>8, DoneCount

(* The parts of a table: each text of its cells once.                      *)
LEMMA PartsDraw ==
    ASSUME ConvInv, NEW x \in Ids, x # 0, OpenNode(x), Kind(x) = "Table", NEW t, PartsOf(t, InnerOf(x))
    PROVE  Draws(t, x)
<1> DEFINE n == InnerOf(x)
<1>1. /\ n \in Seq(Ids) /\ IsInjective(n) /\ Places(t) /\ IsList(t) /\ Len(t) = Len(n)
      /\ \A i \in 1..Len(t) : t[i].id = n[i]
      /\ \A f \in Range(t) : f.id \in Range(n)
      /\ \A i \in 1..Len(t) : t[i].lines = IF Kind(n[i]) = "RichText" THEN tree[n[i]].lines ELSE 1
  BY TableIds DEF PartsOf
<1>2. TreeIsFile /\ Len(n) \in Nat /\ DOMAIN n = 1..Len(n) /\ DOMAIN t = 1..Len(n) /\ Len(t) = Len(n)
  BY <1>1 DEF ConvInv, Places
<1>3. \A i \in Texts : i \in Range(n) <=> i \in Under(x) /\ Visible(i)
  BY TableTexts
<1>4. ASSUME NEW k \in 1..Len(n) PROVE t[k].lines \in Nat
  <2>1. n[k] \in Ids
    BY <1>1
  <2>2. CASE Kind(n[k]) = "RichText"
    <3>1. n[k] \in Nodes
      BY <1>2, <2>1, <2>2, PageIsNode
    <3>2. tree[n[k]] \in TreeNode
      BY <1>2, <3>1, IdNumbers
    <3>3. tree[n[k]].lines \in Nat
      BY <3>2 DEF TreeNode
    <3> QED
      BY <1>1, <1>2, <2>2, <3>3
  <2>3. CASE Kind(n[k]) # "RichText"
    BY <1>1, <1>2, <2>3
  <2> QED
    BY <2>2, <2>3
<1> HIDE DEF n
<1>5. Lined(t)
  <2>1. \A f \in Range(t) : \E k \in 1..Len(n) : f = t[k]
    BY <1>1, <1>2 DEF Places
  <2> QED
    BY <1>1, <1>4, <2>1 DEF Lined
<1>6. ASSUME NEW i \in Texts
      PROVE  LinesDrawn(t, i) = IF i \in Under(x) THEN Due(i) ELSE 0
  <2>1. CASE i \in Range(n)
    <3>1. PICK k \in 1..Len(n) : n[k] = i
      BY <1>2, <2>1 DEF Range
    <3>2. t[k].id = i /\ k \in DOMAIN t
      BY <1>1, <1>2, <3>1
    <3>3. \A j \in DOMAIN t : t[j].id = t[k].id => j = k
      <4> TAKE j \in DOMAIN t
      <4>1. t[j].id = n[j] /\ j \in DOMAIN n /\ k \in DOMAIN n
        BY <1>1, <1>2
      <4> QED
        BY <1>1, <3>1, <3>2, <4>1 DEF IsInjective
    <3>4. LinesDrawn(t, i) = t[k].lines
      BY <1>5, <3>2, <3>3, LinesOnce
    <3>5. Kind(i) = "RichText"
      BY <1>2, TextIs
    <3>6. t[k].lines = tree[i].lines
      BY <1>1, <1>2, <3>1, <3>5
    <3> QED
      BY <1>3, <2>1, <3>4, <3>6 DEF Due
  <2>2. CASE i \notin Range(n)
    <3>1. LinesDrawn(t, i) = 0
      BY <1>1, <1>5, <2>2, LinesWithout
    <3> QED
      BY <1>3, <2>2, <3>1 DEF Due
  <2> QED
    BY <2>1, <2>2
<1> QED
  BY <1>5, <1>6 DEF Draws

LEMMA RenderTableCount ==
    ASSUME MarksGo, CountStory, RenderTable
    PROVE  CountNext
<1> DEFINE x == top.id
<1>1. work # <<>> /\ x > 0 /\ Kind(x) = "Table"
  BY TableParts
<1>2. PICK fl : Done(fl) /\ TableShown(fl, x)
  BY TableParts
<1>3. ConvInv /\ TreeIsFile /\ Open(x) /\ x \in Ids /\ x # 0
  BY <1>1, TopOpen
<1>4. OpenNode(x) /\ x \in Nodes
  BY <1>1, <1>3, OpenKinds
<1>5. x \notin Texts
  BY <1>1, <1>3, TextIs
<1> HIDE DEF x
<1>6. CASE fl = <<>> /\ children[x] = <<>>
  <2>1. Range(children[x]) = {} /\ Lined(<<>>) /\ Range(<<>>) = {}
    BY <1>6, LinesNone, ListSmall
  <2>2. \A i \in Texts : i \notin Under(x)
    BY <1>1, <1>3, <2>1, UnderOne
  <2>3. Draws(fl, x)
    BY <1>6, <2>1, <2>2, DrawsNothing
  <2> QED
    BY <1>1, <1>2, <2>3, DoneCount DEF x
<1>7. CASE ~(fl = <<>> /\ children[x] = <<>>)
  <2>1. PICK s, t : fl = s \o t /\ IconsOf(s, x) /\ PartsOf(t, InnerOf(x))
    BY <1>2, <1>7 DEF TableShown
  <2>2. Draws(t, x)
    BY <1>1, <1>3, <1>4, <2>1, PartsDraw
  <2>3. Lined(s) /\ \A f \in Range(s) : f.id \notin Texts
    BY <1>5, <2>1 DEF IconsOf, Lined
  <2>4. \A i \in Texts : LinesDrawn(s, i) = 0
    BY <2>3, LinesWithout
  <2>5. /\ Lined(fl)
        /\ \A i : /\ LinesDrawn(fl, i) = LinesDrawn(s, i) + LinesDrawn(t, i)
                  /\ LinesDrawn(s, i) \in Nat /\ LinesDrawn(t, i) \in Nat
    BY <2>1, <2>2, <2>3, LinesFollow DEF Draws
  <2>6. \A i \in Texts : LinesDrawn(fl, i) = LinesDrawn(t, i)
    BY <2>4, <2>5
  <2>7. Draws(fl, x)
    BY <2>2, <2>5, <2>6 DEF Draws
  <2> QED
    BY <1>1, <1>2, <2>7, DoneCount DEF x
<1> QED
  BY <1>6, <1>7

LEMMA OpenedCount ==
    ASSUME MarksGo, CountStory, work # <<>>, top.id > 0, Kind(top.id) \in {"Outline", "OutlineElement"},
           NEW v, IsList(v), Inner(top.id, v), Covers(v, Kids(top.id)),
           work' = v \o Tail(work), story' = story, page' = page
    PROVE  CountNext
<1>1. ConvInv /\ Stands(work, ComingFrom(page)) /\ IsList(work)
  BY WorkFacts
<1>2. Open(top.id) /\ top.id \in Ids /\ top.id # 0 /\ ~IsText(top.id)
  BY TopOpen DEF IsText
<1>3. CountGoes(v \o Tail(work), ComingFrom(page), story)
  BY <1>1, <1>2, CountOpened DEF CountStory, top
<1>4. \A y \in Kids(top.id) : Open(y)
  BY <1>1, <1>2, KidsOpen
<1>5. IsList(Tail(work)) /\ Range(Tail(work)) \subseteq Range(work)
  BY <1>1, ListTail
<1>6. Range(v \o Tail(work)) = Range(v) \cup Range(Tail(work))
  BY <1>5, ListConcat
<1>7. \A t \in Range(v) \cup Range(Tail(work)) : t.id # 0 => Open(t.id)
  BY <1>4, <1>5 DEF Inner, OpenWork, CountStory
<1>8. OpenWork(v \o Tail(work))
  BY <1>6, <1>7 DEF OpenWork
<1> QED
  BY <1>3, <1>8 DEF CountNext

LEMMA RenderOutlineCount ==
    ASSUME MarksGo, CountStory, RenderOutline
    PROVE  CountNext
<1> DEFINE x == top.id
           k == Tasks(children[x], 0)
           v == k \o <<EndTask>>
<1>1. /\ work # <<>> /\ x > 0 /\ Kind(x) = "Outline" /\ ConvInv
      /\ work' = (k \o <<EndTask>>) \o Tail(work) /\ story' = story /\ page' = page
  BY DEF RenderOutline, Rendering, MarksGo
<1>2. x \in Ids
  BY <1>1, TopStands
<1>3. children[x] \in Seq(Ids) /\ Unrelated(children[x]) /\ Range(children[x]) = Kids(x)
  BY <1>1, <1>2, ListsApart, KidsSeparate, NoContents
<1>4. \A y \in Range(children[x]) : y > 0
  BY <1>1, <1>2, <1>3, KidFacts
<1>5. WorkStands(k) /\ MadeOf(k, Range(children[x])) /\ Covers(k, Range(children[x]))
  BY <1>1, <1>3, <1>4, TasksStand, TasksCover
<1> HIDE DEF k
<1>6. IsList(<<EndTask>>) /\ Range(<<EndTask>>) = {EndTask} /\ EndTask.id = 0
  BY <1>1, EndTaskStands DEF WorkStands
<1>7. IsList(k)
  BY <1>5 DEF WorkStands
<1>8. IsList(v) /\ Range(v) = Range(k) \cup {EndTask}
  BY <1>6, <1>7, ListConcat
<1>9. work' = v \o Tail(work)
  BY <1>1
<1> HIDE DEF v
<1>10. Inner(x, v) /\ Covers(v, Kids(x))
  BY <1>3, <1>5, <1>6, <1>8 DEF Inner, MadeOf, Covers
<1> QED
  BY <1>1, <1>8, <1>9, <1>10, OpenedCount

LEMMA RenderElementCount ==
    ASSUME MarksGo, CountStory, RenderElement
    PROVE  CountNext
<1> DEFINE x == top.id
           level  == top.level
           marker == IF lists = <<>> THEN NoMarker ELSE Marker(Head(lists), x, level)
           items  == IF marker = NoMarker THEN Tasks(contents[x], level) ELSE ItemTasks(x, level, marker)
           kids   == Tasks(children[x], level + 1)
           v == items \o kids
           u == v \o Tail(work)
<1>1. /\ work # <<>> /\ x > 0 /\ Kind(x) = "OutlineElement" /\ ConvInv
      /\ work' = u /\ story' = story /\ page' = page
  BY DEF RenderElement, Rendering, MarksGo
<1>2. x \in Ids
  BY <1>1, TopStands
<1>3. /\ children[x] \in Seq(Ids) /\ Unrelated(children[x])
      /\ contents[x] \in Seq(Ids) /\ Unrelated(contents[x])
      /\ Range(children[x]) \cup Range(contents[x]) = Kids(x)
  BY <1>1, <1>2, ListsApart, KidsSeparate DEF Kids
<1>4. \A y \in Range(children[x]) \cup Range(contents[x]) : y > 0
  BY <1>1, <1>2, <1>3, KidFacts
<1> HIDE DEF x, level
<1>5. WorkStands(kids) /\ MadeOf(kids, Range(children[x])) /\ Covers(kids, Range(children[x]))
  BY <1>1, <1>3, <1>4, TasksStand, TasksCover
<1>6. WorkStands(items) /\ MadeOf(items, Range(contents[x])) /\ Covers(items, Range(contents[x]))
  <2> HIDE DEF marker
  <2>1. CASE marker = NoMarker
    <3>1. items = Tasks(contents[x], level)
      BY <2>1
    <3> QED
      BY <1>1, <1>3, <1>4, <2>1, <3>1, TasksStand, TasksCover
  <2>2. CASE marker # NoMarker
    <3>1. items = ItemTasks(x, level, marker)
      BY <2>2
    <3> QED
      BY <1>1, <1>2, <1>3, <3>1, ItemTasksStand, ItemsCover
  <2> QED
    BY <2>1, <2>2
<1> HIDE DEF kids, items, marker
<1>7. IsList(items) /\ IsList(kids)
  BY <1>5, <1>6 DEF WorkStands
<1>8. IsList(v) /\ Range(v) = Range(items) \cup Range(kids)
  BY <1>7, ListConcat
<1>9. work' = v \o Tail(work)
  BY <1>1
<1> HIDE DEF v
<1>10. Inner(x, v)
  BY <1>3, <1>5, <1>6, <1>8 DEF Inner, MadeOf
<1>11. Covers(v, Kids(x))
  BY <1>3, <1>5, <1>6, <1>8 DEF Covers
<1> QED
  BY <1>1, <1>8, <1>9, <1>10, <1>11, OpenedCount DEF x

(* No page lies in what is not to be seen, or in a cell.                   *)
PagePlace(x) == Visible(x) /\ ~CellAbove(x) /\ Kind(x) \in {"Section", "PageSeries", "Page"}

LEMMA PagePlaces ==
    ASSUME ConvInv, NEW x \in Ids, PagePlace(x), Kind(x) # "Page", NEW y \in Range(children[x])
    PROVE  PagePlace(y)
<1>1. TreeIsFile /\ Len(tree) \in Nat /\ Ids = 0..(2 * Len(tree))
  BY IdNumbers DEF ConvInv
<1>2. /\ y \in Ids \ {0} /\ Maker(y) \in kept \ {0} /\ Maker(y) \in Nodes
      /\ OfNode(x, y) \/ OfWrapper(x, y)
  BY KidNode DEF Kids
<1>3. OfNode(x, y)
  BY <1>1, <1>2 DEF PagePlace, OfWrapper, Kind
<1>4. tree[Maker(y)].parent = x /\ Fitting(Maker(y))
  BY <1>2, <1>3, KeptNode DEF OfNode, Up
<1>5. Kind(x) \in {"Section", "PageSeries"}
  BY DEF PagePlace
<1>6. tree[Maker(y)].kind \in {"PageSeries", "Page"}
  <2>1. tree[Maker(y)].kind \in Takes(Kind(x))
    BY <1>4 DEF Fitting
  <2> QED
    BY <1>5, <2>1 DEF Takes, Containers
<1>7. ChildOf(x, y)
  BY DEF ConvInv, ChildrenStand
<1>8. ~(y > Len(tree))
  BY <1>4, <1>5, <1>7 DEF ChildOf, Place, Maker
<1>9. Maker(y) = y
  BY <1>8 DEF Maker
<1>10. y \in Nodes /\ tree[y].parent = x /\ tree[y].kind \in {"PageSeries", "Page"} /\ Kind(y) = tree[y].kind
  BY <1>2, <1>4, <1>6, <1>9, KeptNode
<1>11. Seen(y)
  BY <1>5, <1>10 DEF Seen
<1> QED
  BY <1>1, <1>10, <1>11, SeenFacts DEF PagePlace

LEMMA PagesSeen ==
    ASSUME ConvInv
    PROVE  \A p \in Range(Pages) : Visible(p) /\ ~CellAbove(p)
<1>1. PICK F : Flat(F)
  BY FlatIs
<1>2. /\ F \in [Ids -> Seq(Ids)] /\ Pages = F[0]
      /\ \A x \in Ids : Kind(x) = "Page" => F[x] = <<x>>
  BY <1>1 DEF Flat, FlatAt
<1>3. TreeIsFile /\ 0 \in Ids /\ 5 * Len(tree) \in Nat /\ IdRank \in [Ids -> 0..(5 * Len(tree))]
  BY IdNumbers, RankFacts DEF ConvInv
<1> DEFINE Fine == {x \in Ids : PagePlace(x) => \A p \in Range(F[x]) : PagePlace(p)}
<1>4. ASSUME NEW x \in Ids, \A y \in Ids : IdRank[y] > IdRank[x] => y \in Fine, PagePlace(x),
             NEW p \in Range(F[x])
      PROVE  PagePlace(p)
  <2>1. CASE Kind(x) = "Page"
    <3>1. Range(<<x>>) = {x}
      BY OneMember
    <3> QED
      BY <1>2, <1>4, <2>1, <3>1
  <2>2. CASE Kind(x) # "Page"
    <3>1. PICK y \in Range(children[x]) : p \in Range(F[y])
      BY <1>1, <1>4, <2>2, FlatBelow
    <3>2. PagePlace(y)
      BY <1>4, <2>2, PagePlaces
    <3>3. y \in Ids /\ IdRank[y] > IdRank[x]
      BY KidFacts DEF Kids
    <3> QED
      BY <1>4, <3>1, <3>2, <3>3
  <2> QED
    BY <2>1, <2>2
<1>5. \A x \in Ids : (\A y \in Ids : IdRank[y] > IdRank[x] => y \in Fine) => x \in Fine
  BY <1>4
<1>6. Ids \subseteq Fine
  <2> HIDE DEF Fine
  <2> QED
    BY <1>3, <1>5, RankInduction
<1>7. PagePlace(0)
  BY <1>3, SeenFacts DEF PagePlace, Kind
<1> QED
  BY <1>2, <1>3, <1>6, <1>7 DEF PagePlace

LEMMA RenderPageCount ==
    ASSUME MarksGo, ListsRise, CountStory, RenderPage
    PROVE  CountNext
<1> DEFINE p == Pages[page]
           b == IF page = 1 THEN <<>> ELSE <<Plain("break", p)>>
           h == IF tree[p].text THEN <<Plain("heading", p)>> ELSE <<>>
           v == Tasks(PageItems(p), 0)
           c == ComingFrom(page)
           fl == b \o h
<1>1. /\ work = <<>> /\ page \in Nat \ {0} /\ page <= Len(Pages) /\ ConvInv
      /\ story' = (story \o b) \o h /\ work' = v /\ page' = page + 1
  BY DEF RenderPage, MarksGo
<1>2. CountGoes(<<>>, c, story) /\ IsList(story) /\ c \subseteq Range(Pages)
  BY <1>1 DEF CountStory, MarksGo, StoryGoes, StoryStands, Stands
<1>3. p \in c /\ p \in Range(Pages) /\ ComingFrom(page + 1) = c \ {p}
  BY <1>1, NextPages
<1>4. p \in Ids /\ Kind(p) = "Page" /\ Visible(p) /\ ~CellAbove(p)
  BY <1>1, <1>3, PagesFacts, PagesSeen
<1>5. PageItems(p) \in Seq(Ids) /\ Unrelated(PageItems(p)) /\ Range(PageItems(p)) = Kids(p)
  BY <1>1, <1>4, PageItemsStand, PageInLine, NoContents
<1>6. \A y \in Kids(p) : y > 0 /\ y # 0 /\ Open(y)
  BY <1>1, <1>4, KidFacts, KidsOpen
<1>7. LinedAs(b, p) /\ LinedAs(h, p)
  BY PlainLined
<1> HIDE DEF p, b, h, c
<1>8. WorkStands(v) /\ MadeOf(v, Kids(p)) /\ Covers(v, Kids(p))
  BY <1>1, <1>5, <1>6, TasksStand, TasksCover
<1> HIDE DEF v
<1>9. IsList(v)
  BY <1>8 DEF WorkStands
<1>10. IsList(b) /\ IsList(h) /\ Lined(b) /\ Lined(h)
  BY <1>7 DEF LinedAs, Lined
<1>11. Lined(fl) /\ Range(fl) = Range(b) \cup Range(h)
  BY <1>10, LinesFollow, ListConcat
<1>12. fl = b \o h
  OBVIOUS
<1> HIDE DEF fl
<1>13. \A f \in Range(fl) : f.id = p
  BY <1>7, <1>11 DEF LinedAs
<1>14. CountGoes(v, c \ {p}, story \o fl)
  BY <1>1, <1>2, <1>3, <1>4, <1>8, <1>9, <1>11, <1>13, CountPage
<1>15. (story \o b) \o h = story \o fl
  BY <1>2, <1>10, <1>12, ListAssoc
<1>16. OpenWork(v)
  BY <1>6, <1>8 DEF OpenWork, MadeOf
<1> QED
  BY <1>1, <1>3, <1>14, <1>15, <1>16 DEF CountNext

LEMMA RendersInCount ==
    ASSUME MarksGo, ListsRise, CountStory, StoryNext, ~EndStory, ~Split, ~Build
    PROVE  CountNext
BY RenderPageCount, RenderOutlineCount, EndOutlineCount, RenderElementCount, RenderTextCount, OtherCount,
   RenderTableCount DEF StoryNext

(* Every node that is to be seen was converted, and is on a page unless it *)
(* is a series of pages.                                                   *)
OnPage(i) == \E p \in Range(Pages) : i \in Under(p)
Reached(i, F) ==
    /\ i \in kept
    /\ IF Kind(i) \in {"Section", "PageSeries"} THEN Range(F[i]) \subseteq Range(Pages) ELSE OnPage(i)

LEMMA SeenFits ==
    ASSUME ConvInv, HeldInContainers, NEW i \in Nodes, Seen(i), Visible(tree[i].parent)
    PROVE  Fitting(i) /\ Place(i) # "title"
           /\ (Kind(tree[i].parent) \in {"Section", "PageSeries"} => Place(i) = "children")
<1> DEFINE u == tree[i].parent
<1>1. TreeIsFile /\ tree[i] \in TreeNode /\ u \in Nat /\ u <= Len(tree) /\ Nodes = 1..Len(tree)
  BY IdNumbers DEF ConvInv
<1>2. tree[i].kind \in NodeKinds
  BY <1>1 DEF TreeNode
<1>3. Kind(u) \in {"Section", "PageSeries"} \cup (Containers \ {"Title"})
  <2>1. CASE u = 0
    BY <2>1 DEF Kind
  <2>2. CASE u # 0
    <3>1. u \in Nodes /\ u > 0 /\ Kind(u) = tree[u].kind
      BY <1>1, <2>2 DEF Kind
    <3>2. tree[u].kind \in Containers \cup {"PageSeries", "Unknown"}
      BY <3>1 DEF HeldInContainers
    <3>3. Seen(u)
      BY <1>1, <3>1, SeenFacts
    <3>4. tree[u].kind \notin {"Title", "Unknown"}
      BY <3>3 DEF Seen
    <3> QED
      BY <3>1, <3>2, <3>4
  <2> QED
    BY <2>1, <2>2
<1> HIDE DEF u
<1>4. /\ tree[i].kind \notin {"Title", "Unknown"}
      /\ tree[i].kind \in {"PageSeries", "Page"} <=> Kind(u) \in {"Section", "PageSeries"}
      /\ tree[i].kind = "TableRow"  <=> Kind(u) = "Table"
      /\ tree[i].kind = "TableCell" <=> Kind(u) = "TableRow"
  BY DEF Seen, u
<1>5. tree[i].kind \in Takes(Kind(u))
  <2>1. CASE Kind(u) \in {"Section", "PageSeries"}
    BY <1>4, <2>1 DEF Takes, Containers
  <2>2. CASE Kind(u) = "Table"
    BY <1>4, <2>2 DEF Takes, Containers
  <2>3. CASE Kind(u) = "TableRow"
    BY <1>4, <2>3 DEF Takes, Containers
  <2>4. CASE Kind(u) \in Containers \ {"Table", "TableRow"}
    <3>1. tree[i].kind \in Elements
      BY <1>2, <1>4, <2>4 DEF NodeKinds, Containers, Elements
    <3>2. Takes(Kind(u)) = Elements
      BY <2>4 DEF Takes, Containers
    <3> QED
      BY <3>1, <3>2
  <2> QED
    BY <1>3, <2>1, <2>2, <2>3, <2>4
<1>6. Place(i) # "title"
  BY <1>4 DEF Place
<1>7. Kind(u) \in {"Section", "PageSeries"} => Place(i) = "children"
  BY DEF Place, u
<1> QED
  BY <1>5, <1>6, <1>7 DEF Fitting, u

LEMMA PlaceValues ==
    \A i : Place(i) \in {"title", "wrapper", "contents", "children"}
BY DEF Place

LEMMA UnderParent ==
    ASSUME ConvInv, NEW i \in Nodes, InItsList(i), Place(i) # "title"
    PROVE  i \in Under(tree[i].parent)
<1> DEFINE u == tree[i].parent
<1>1. i \in Ids /\ u \in Ids /\ Wrapper(i) \in Ids
  BY IdNumbers DEF ConvInv
<1>2. CASE Place(i) \in {"children", "contents"}
  <2>1. i \in Kids(u)
    BY <1>2 DEF InItsList, Kids
  <2> QED
    BY <1>1, <2>1, UnderFacts
<1>3. CASE Place(i) = "wrapper"
  <2>1. Wrapper(i) \in Kids(u) /\ i \in Kids(Wrapper(i))
    BY <1>3 DEF InItsList, Kids
  <2> QED
    BY <1>1, <2>1, UnderFacts
<1> QED
  BY <1>2, <1>3, PlaceValues

LEMMA SeenOnPages ==
    ASSUME ConvInv, FullInv, doing # "convert"
    PROVE  \A i \in Texts : Visible(i) => OnPage(i)
<1>1. TreeIsFile /\ Len(tree) \in Nat /\ Nodes = 1..Len(tree) /\ 0 \in kept /\ HeldInContainers /\ at = Len(tree) + 1
  BY IdNumbers DEF ConvInv, FullInv
<1>2. PICK F : Flat(F)
  BY FlatIs
<1>3. Pages = F[0] /\ \A x \in Ids : Kind(x) = "Page" => F[x] = <<x>>
  BY <1>2 DEF Flat, FlatAt
<1> DEFINE P == {i \in 0..Len(tree) : Visible(i) => Reached(i, F)}
<1>4. 0 \in P
  <2>1. Reached(0, F)
    BY <1>1, <1>3 DEF Reached, Kind
  <2> QED
    BY <1>1, <2>1
<1>5. ASSUME NEW i \in Nodes, tree[i].parent \in P PROVE i \in P
  <2> DEFINE u == tree[i].parent
  <2>1. i \in 0..Len(tree) /\ i \in Ids /\ u \in Ids /\ i # 0 /\ Kind(i) = tree[i].kind
    BY <1>1, IdNumbers DEF Kind
  <2> SUFFICES ASSUME Visible(i) PROVE Reached(i, F)
    BY <2>1
  <2>2. Seen(i) /\ Visible(u)
    BY <1>1, SeenFacts
  <2>3. Reached(u, F)
    BY <1>5, <2>2
  <2>4. Fitting(i) /\ Place(i) # "title" /\ (Kind(u) \in {"Section", "PageSeries"} => Place(i) = "children")
    BY <1>1, <2>2, SeenFits
  <2>5. i \in kept
    BY <1>1, <2>3, <2>4 DEF FullInv, KeptAll, Reached
  <2>6. InItsList(i)
    BY <2>1, <2>5 DEF FullInv, AllListed
  <2>7. i \in Under(u) /\ i \in Under(i)
    BY <2>1, <2>4, <2>6, UnderParent, UnderFacts
  <2> HIDE DEF P
  <2>8. CASE Kind(u) \in {"Section", "PageSeries"}
    <3>1. i \in Range(children[u])
      BY <2>4, <2>6, <2>8 DEF InItsList
    <3>2. Range(F[u]) \subseteq Range(Pages)
      BY <2>3, <2>8 DEF Reached
    <3>3. \A z \in Range(F[i]) : z \in Range(F[u])
      BY <1>2, <2>1, <2>8, <3>1, FlatBelow
    <3>4. Kind(i) \in {"PageSeries", "Page"}
      BY <2>1, <2>2, <2>8 DEF Seen
    <3>5. CASE Kind(i) = "Page"
      <4>1. i \in Range(F[i])
        BY <1>3, <2>1, <3>5, OneMember
      <4>2. i \in Range(Pages)
        BY <3>2, <3>3, <4>1
      <4> QED
        BY <2>5, <2>7, <3>5, <4>2 DEF Reached, OnPage
    <3>6. CASE Kind(i) = "PageSeries"
      BY <2>5, <3>2, <3>3, <3>6 DEF Reached
    <3> QED
      BY <3>4, <3>5, <3>6
  <2>9. CASE Kind(u) \notin {"Section", "PageSeries"}
    <3>1. PICK p \in Range(Pages) : u \in Under(p)
      BY <2>3, <2>9 DEF Reached, OnPage
    <3>2. p \in Ids
      BY <3>1, PagesFacts
    <3>3. i \in Under(p)
      BY <2>7, <3>1, <3>2, UnderTrans
    <3>4. Kind(i) \notin {"Section", "PageSeries"}
      <4>1. tree[i] \in TreeNode /\ tree[i].kind \in NodeKinds
        BY <1>1, IdNumbers DEF TreeNode
      <4>2. tree[i].kind # "Section"
        BY <4>1 DEF NodeKinds, Containers, Elements
      <4> QED
        BY <2>1, <2>2, <2>9, <4>2 DEF Seen
    <3> QED
      BY <2>5, <3>1, <3>3, <3>4 DEF Reached, OnPage
  <2> QED
    BY <2>8, <2>9
<1>6. 0..Len(tree) \subseteq P
  <2> HIDE DEF P
  <2> QED
    BY <1>1, <1>4, <1>5, NodeInduction
<1> SUFFICES ASSUME NEW i \in Texts, Visible(i) PROVE OnPage(i)
  OBVIOUS
<1>7. i \in 0..Len(tree) /\ Kind(i) = "RichText"
  BY <1>1, TextIs
<1>8. Reached(i, F)
  BY <1>6, <1>7
<1> QED
  BY <1>7, <1>8 DEF Reached

LEMMA CountStarts ==
    ASSUME ConvInv, FullInv, doing # "convert"
    PROVE  OrderGoes(<<>>, ComingFrom(1), <<>>) /\ CountGoes(<<>>, ComingFrom(1), <<>>) /\ OpenWork(<<>>)
<1>1. Range(<<>>) = {} /\ Lined(<<>>) /\ (\A i : LinesDrawn(<<>>, i) = 0) /\ \A m : Row(<<>>, m)
  BY ListSmall, LinesNone, RowSmall
<1>2. ComingFrom(1) = Range(Pages)
  <2>1. DOMAIN Pages = 1..Len(Pages)
    BY PagesFacts, LenProperties
  <2> QED
    BY <2>1 DEF ComingFrom, Range
<1>3. OrderGoes(<<>>, ComingFrom(1), <<>>)
  BY <1>1 DEF OrderGoes
<1>4. \A i \in Texts : Past(i, <<>>, ComingFrom(1)) => Due(i) = 0
  BY <1>2, SeenOnPages DEF Past, Due, OnPage
<1> QED
  BY <1>1, <1>3, <1>4 DEF CountGoes, OpenWork

(* The tree and the lists made of it stay while its story is made.         *)
StaysAs == UNCHANGED <<tree, kept, children, contents>>

LEMMA PathsStay ==
    ASSUME UNCHANGED tree
    PROVE  /\ \A i : Path(i)' = Path(i)
           /\ \A i : Kind(i)' = Kind(i) /\ Maker(i)' = Maker(i)
           /\ Texts' = Texts /\ Ids' = Ids
           /\ \A u, v : InOrder(u, v)' <=> InOrder(u, v)
           /\ \A i : Visible(i)' <=> Visible(i)
           /\ \A i : CellAbove(i)' <=> CellAbove(i)
<1>1. /\ \A i : Path(i)' = Path(i)
      /\ \A i : Kind(i)' = Kind(i) /\ Maker(i)' = Maker(i)
      /\ Ids' = Ids /\ Nodes' = Nodes
  BY DEF Path, Kind, Maker, Ids, Nodes
<1>2. \A i : IsText(i)' <=> IsText(i)
  BY <1>1 DEF IsText
<1>3. Texts' = Texts
  BY <1>1, <1>2 DEF Texts
<1>4. \A x, y : Precedes(x, y)' <=> Precedes(x, y)
  BY <1>1 DEF Precedes
<1>5. \A u, v : InOrder(u, v)' <=> InOrder(u, v)
  BY <1>1, <1>4 DEF InOrder
<1>6. \A i : Visible(i)' <=> Visible(i)
  BY <1>1 DEF Visible
<1>7. \A i : CellAbove(i)' <=> CellAbove(i)
  BY <1>1 DEF CellAbove
<1> QED
  BY <1>1, <1>3, <1>5, <1>6, <1>7

LEMMA RowsStay ==
    ASSUME StaysAs
    PROVE  /\ Whole' = Whole /\ Alone' = Alone
           /\ \A s, m : Row(s, m)' <=> Row(s, m)
           /\ \A S, T : AllIn(S, T)' <=> AllIn(S, T)
           /\ \A i : Due(i)' = Due(i)
           /\ \A i, w, c : Past(i, w, c)' <=> Past(i, w, c)
           /\ \A x : Open(x)' <=> Open(x)
           /\ \A n : ComingFrom(n)' = ComingFrom(n)
<1>1. UNCHANGED <<tree, children, contents>> /\ kept' = kept
  BY DEF StaysAs
<1>2. (\A x : Under(x)' = Under(x)) /\ Pages' = Pages
  BY <1>1, TreeStays, UnderStays
<1>3. Whole' = Whole /\ Alone' = Alone
  BY <1>1, <1>2, PathsStay DEF Whole, Alone
<1>4. \A S, T : AllIn(S, T)' <=> AllIn(S, T)
  BY <1>1, PathsStay DEF AllIn
<1>5. \A s, m : Row(s, m)' <=> Row(s, m)
  BY <1>4 DEF Row
<1>6. \A i : Due(i)' = Due(i)
  BY <1>1, PathsStay DEF Due
<1>7. \A i, w, c : Past(i, w, c)' <=> Past(i, w, c)
  BY <1>2 DEF Past
<1>8. \A m : OpenNode(m)' <=> OpenNode(m)
  BY <1>1, PathsStay DEF OpenNode
<1>9. \A x : Open(x)' <=> Open(x)
  BY <1>1, <1>8, PathsStay DEF Open
<1>10. \A n : ComingFrom(n)' = ComingFrom(n)
  BY <1>2 DEF ComingFrom
<1> QED
  BY <1>3, <1>4, <1>5, <1>6, <1>7, <1>9, <1>10

LEMMA OrderSame ==
    ASSUME StaysAs, OrderNext
    PROVE  OrderStory'
<1>1. \A w, c, s : OrderGoes(w, c, s) => OrderGoes(w, c, s)'
  BY RowsStay DEF OrderGoes
<1>2. OrderGoes(work', ComingFrom(page'), story')
  BY DEF OrderNext
<1>3. ComingFrom(page)' = ComingFrom(page')
  BY TreeStays DEF StaysAs, ComingFrom
<1> QED
  BY <1>1, <1>2, <1>3 DEF OrderStory

LEMMA CountSame ==
    ASSUME StaysAs, CountNext
    PROVE  CountStory'
<1>1. Texts' = Texts
  BY PathsStay DEF StaysAs
<1>2. \A w, c, s : CountGoes(w, c, s) => CountGoes(w, c, s)'
  BY <1>1, RowsStay DEF CountGoes
<1>3. \A w : OpenWork(w) => OpenWork(w)'
  BY RowsStay DEF OpenWork
<1>4. CountGoes(work', ComingFrom(page'), story') /\ OpenWork(work')
  BY DEF CountNext
<1>5. ComingFrom(page)' = ComingFrom(page')
  BY TreeStays DEF StaysAs, ComingFrom
<1> QED
  BY <1>2, <1>3, <1>4, <1>5 DEF CountStory

(* The story is complete: its texts are in order, and all lines are there. *)
TextsInOrder(s) ==
    \A i, j \in 1..Len(s) : i < j /\ s[i].id \in Texts /\ s[j].id \in Texts => InOrder(s[i].id, s[j].id)
AllDrawn(s) ==
    /\ Lined(s) /\ TextsInOrder(s)
    /\ \A i \in Texts : LinesDrawn(s, i) = Due(i)

LEMMA DrawnSame ==
    ASSUME StaysAs, AllDrawn(story')
    PROVE  AllDrawn(story)'
<1>1. Texts' = Texts /\ \A u, v : InOrder(u, v)' <=> InOrder(u, v)
  BY PathsStay DEF StaysAs
<1>2. \A s : TextsInOrder(s) => TextsInOrder(s)'
  BY <1>1 DEF TextsInOrder
<1>3. \A s : AllDrawn(s) => AllDrawn(s)'
  BY <1>1, <1>2, RowsStay DEF AllDrawn
<1> QED
  BY <1>3

LEMMA RowOfTexts ==
    ASSUME TreeIsFile, NEW s, Row(s, Alone)
    PROVE  TextsInOrder(s)
<1> SUFFICES ASSUME NEW i \in 1..Len(s), NEW j \in 1..Len(s), i < j, s[i].id \in Texts, s[j].id \in Texts
             PROVE  InOrder(s[i].id, s[j].id)
  BY DEF TextsInOrder
<1>1. AllIn(Alone[s[i].id], Alone[s[j].id])
  BY DEF Row
<1>2. \A x \in Texts : x \in Ids /\ x \in Alone[x]
  BY TextIs DEF Alone
<1> QED
  BY <1>1, <1>2 DEF AllIn

LEMMA StoryComplete ==
    ASSUME MarksGo, OrderStory, CountStory, work = <<>>, page > Len(Pages)
    PROVE  AllDrawn(story)
<1>1. ConvInv /\ TreeIsFile /\ page \in Nat
  BY DEF MarksGo, ConvInv
<1>2. Len(Pages) \in Nat
  BY <1>1, PagesFacts
<1>3. ComingFrom(page) = {} /\ Range(<<>>) = {}
  BY <1>1, <1>2, ListSmall DEF ComingFrom
<1>4. \A i : Past(i, work, ComingFrom(page))
  BY <1>3 DEF Past
<1>5. Lined(story) /\ \A i \in Texts : LinesDrawn(story, i) = Due(i)
  BY <1>4 DEF CountStory, CountGoes
<1>6. TextsInOrder(story)
  BY <1>1, RowOfTexts DEF OrderStory, OrderGoes
<1> QED
  BY <1>5, <1>6 DEF AllDrawn

LEMMA CutInOrder ==
    ASSUME TreeIsFile, NEW s, IsList(s), TextsInOrder(s), NEW i \in DOMAIN s, NEW one, NEW two,
           one.id = s[i].id, two.id = s[i].id
    PROVE  TextsInOrder(Cut(s, i, one, two))
<1> DEFINE t == Cut(s, i, one, two)
           from(j) == IF j <= i THEN j ELSE j - 1
<1>1. Places(s) /\ CutPlaces(s, i, one, two)
  BY ListPlaces, CutFacts
<1>2. Len(s) \in Nat /\ i \in 1..Len(s) /\ Len(t) = Len(s) + 1
  BY <1>1 DEF Places, CutPlaces
<1>3. \A j \in 1..(Len(s) + 1) :
        t[j] = IF j < i THEN s[j] ELSE IF j = i THEN one ELSE IF j = i + 1 THEN two ELSE s[j - 1]
  BY <1>1 DEF CutPlaces
<1> HIDE DEF t
<1>4. ASSUME NEW j \in 1..(Len(s) + 1) PROVE t[j].id = s[from(j)].id /\ from(j) \in 1..Len(s)
  <2>1. CASE j < i
    BY <1>2, <1>3, <2>1
  <2>2. CASE j = i
    BY <1>2, <1>3, <2>2
  <2>3. CASE j = i + 1
    BY <1>2, <1>3, <2>3
  <2>4. CASE j > i + 1
    BY <1>2, <1>3, <2>4
  <2> QED
    BY <1>2, <2>1, <2>2, <2>3, <2>4
<1> SUFFICES ASSUME NEW j \in 1..Len(t), NEW k \in 1..Len(t), j < k, t[j].id \in Texts, t[k].id \in Texts
             PROVE  InOrder(t[j].id, t[k].id)
  BY DEF TextsInOrder, t
<1>5. /\ t[j].id = s[from(j)].id /\ from(j) \in 1..Len(s)
      /\ t[k].id = s[from(k)].id /\ from(k) \in 1..Len(s)
  BY <1>2, <1>4
<1>6. from(j) < from(k) \/ from(j) = from(k)
  BY <1>2
<1> HIDE DEF from
<1>7. CASE from(j) < from(k)
  BY <1>5, <1>7 DEF TextsInOrder
<1>8. CASE from(j) = from(k)
  <2>1. t[j].id = t[k].id /\ t[j].id \in Nodes
    BY <1>5, <1>8 DEF Texts
  <2> QED
    BY <2>1, InOrderOnce
<1> QED
  BY <1>6, <1>7, <1>8

LEMMA SplitDrawn ==
    ASSUME TreeIsFile, DoneWell(story, marks), AllDrawn(story), Split
    PROVE  AllDrawn(story')
<1>1. PICK i \in DOMAIN story : \E n \in 1..(story[i].lines - 1) :
        story' = SubSeq(story, 1, i - 1) \o Parts(story[i], n) \o SubSeq(story, i + 1, Len(story))
  BY DEF Split
<1>2. PICK n \in 1..(story[i].lines - 1) :
        story' = SubSeq(story, 1, i - 1) \o Parts(story[i], n) \o SubSeq(story, i + 1, Len(story))
  BY <1>1
<1> DEFINE f == story[i]
<1>3. IsList(story) /\ Lined(story) /\ f \in Range(story)
  BY DEF AllDrawn, Lined, Range
<1>4. IsFlowable(f) /\ f.lines \in Nat
  BY <1>3 DEF DoneWell, StoryStands, Lined
<1>5. n \in Nat /\ f.lines - n \in Nat /\ n + (f.lines - n) = f.lines
  <2>1. n \in 1..(f.lines - 1)
    OBVIOUS
  <2> DEFINE k == f.lines
  <2>2. k \in Nat /\ n \in 1..(k - 1)
    BY <1>4, <2>1
  <2> HIDE DEF k
  <2>3. n \in Nat /\ k - n \in Nat /\ n + (k - n) = k
    BY <2>2
  <2> QED
    BY <2>3 DEF k
<1> HIDE DEF f
<1>6. PICK one, two : /\ Parts(f, n) = <<one, two>> /\ IsFirst(f, one) /\ IsRest(f, two)
                      /\ one.lines = n /\ two.lines = f.lines - n
  BY <1>4, SplitParts
<1>7. story' = Cut(story, i, one, two)
  BY <1>2, <1>6 DEF Cut, f
<1>8. /\ one.id = story[i].id /\ two.id = story[i].id
      /\ one.lines \in Nat /\ two.lines \in Nat /\ one.lines + two.lines = story[i].lines
  BY <1>5, <1>6 DEF IsFirst, IsRest, IsPart, f
<1>9. /\ Lined(Cut(story, i, one, two))
      /\ \A t : LinesDrawn(Cut(story, i, one, two), t) = LinesDrawn(story, t)
  BY <1>3, <1>8, LinesCut
<1>10. TextsInOrder(Cut(story, i, one, two))
  BY <1>3, <1>8, CutInOrder DEF AllDrawn
<1> QED
  BY <1>7, <1>9, <1>10 DEF AllDrawn

TextInv ==
    /\ MarkInv /\ FullInv
    /\ doing = "pages" => OrderStory /\ CountStory
    /\ doing \in {"build", "done"} => AllDrawn(story)

LEMMA TextKeeps ==
    ASSUME TextInv, [DocumentNext]_documentVars
    PROVE  TextInv'
<1>1. MarkInv /\ MarkInv' /\ ConvInv /\ ConvInv' /\ TreeIsFile /\ ListsRise
  <2>1. MarkInv /\ MarkInv'
    BY MarkKeeps DEF TextInv
  <2> QED
    BY <2>1 DEF MarkInv, DocumentInv, ConvInv, TextInv, FullInv
<1>2. FullInv'
  <2>1. CASE DocumentNext
    BY <1>1, <2>1, FullKeeps DEF TextInv
  <2>2. CASE UNCHANGED documentVars
    BY <1>1, <2>2, FullStays DEF TextInv, documentVars, treeVars, FullInv
  <2> QED
    BY <2>1, <2>2
<1>3. CASE TreeNext /\ UNCHANGED <<storyVars, domVars>>
  <2>1. doing' \in Early
    BY <1>3 DEF TreeNext, ConvertNode, DropNode, EndConvert, FillGroup, Source, Early
  <2> QED
    BY <1>1, <1>2, <2>1 DEF TextInv, Early
<1>4. CASE StoryNext /\ UNCHANGED domVars
  <2>1. StaysAs
    <3>1. CASE RenderPage \/ EndOutline \/ PassElement \/ EndStory \/ Split \/ Build
      BY <1>4, <3>1, Zenon DEF RenderPage, EndOutline, PassElement, EndStory, Split, Build, treeVars, Source, StaysAs
    <3>2. CASE RenderOutline \/ RenderElement \/ RenderText \/ RenderImage \/ RenderFile \/ RenderTable
      BY <1>4, <3>2, Zenon DEF RenderOutline, RenderElement, RenderText, RenderImage, RenderFile, RenderTable,
         treeVars, Source, StaysAs
    <3> QED
      BY <1>4, <3>1, <3>2 DEF StoryNext
  <2>2. CASE ~EndStory /\ ~Split /\ ~Build
    <3>1. doing = "pages" /\ doing' = "pages"
      <4>1. CASE RenderPage \/ EndOutline \/ PassElement
        BY <4>1, Zenon DEF RenderPage, EndOutline, PassElement, treeVars
      <4>2. CASE RenderOutline \/ RenderElement \/ RenderText \/ RenderImage \/ RenderFile \/ RenderTable
        BY <4>2, Zenon DEF RenderOutline, RenderElement, RenderText, RenderImage, RenderFile, RenderTable,
           Rendering, treeVars
      <4> QED
        BY <1>4, <2>2, <4>1, <4>2 DEF StoryNext
    <3>2. MarksGo /\ OrderStory /\ CountStory
      BY <1>1, <3>1 DEF TextInv, MarkInv
    <3>3. OrderNext /\ CountNext
      BY <1>1, <1>4, <2>2, <3>2, RendersInOrder, RendersInCount
    <3>4. OrderStory' /\ CountStory'
      BY <2>1, <3>3, OrderSame, CountSame
    <3> QED
      BY <1>1, <1>2, <3>1, <3>4 DEF TextInv
  <2>3. CASE EndStory
    <3>1. doing = "pages" /\ doing' = "build" /\ work = <<>> /\ page > Len(Pages) /\ story' = story
      BY <2>3 DEF EndStory, storyVars
    <3>2. AllDrawn(story')
      BY <1>1, <3>1, StoryComplete DEF TextInv, MarkInv
    <3>3. AllDrawn(story)'
      BY <2>1, <3>2, DrawnSame
    <3> QED
      BY <1>1, <1>2, <3>1, <3>3 DEF TextInv
  <2>4. CASE Split \/ Build
    <3>1. doing = "build" /\ doing' \in {"build", "done"}
      BY <2>4 DEF Split, Build, storyVars, treeVars
    <3>2. DoneWell(story, marks) /\ AllDrawn(story)
      BY <1>1, <3>1 DEF TextInv, MarkInv
    <3>3. AllDrawn(story')
      <4>1. CASE Split
        BY <1>1, <3>2, <4>1, SplitDrawn
      <4>2. CASE Build
        BY <3>2, <4>2 DEF Build, storyVars
      <4> QED
        BY <2>4, <4>1, <4>2
    <3>4. AllDrawn(story)'
      BY <2>1, <3>3, DrawnSame
    <3> QED
      BY <1>1, <1>2, <3>1, <3>4 DEF TextInv
  <2> QED
    BY <2>2, <2>3, <2>4
<1>5. CASE Load
  <2>1. doing' = "client"
    BY <1>5 DEF Load
  <2> QED
    BY <1>1, <1>2, <2>1 DEF TextInv
<1>6. CASE InsertChild \/ RemoveChild \/ ClonePage
  <2>1. doing' = "client"
    BY <1>6 DEF InsertChild, RemoveChild, ClonePage, Edit, Rest, treeVars
  <2> QED
    BY <1>1, <1>2, <2>1 DEF TextInv
<1>7. CASE Save
  <2>1. doing = "client" /\ doing' = "pages" /\ StaysAs /\ UNCHANGED storyVars
    BY <1>7 DEF Save, StartStory, Source, StaysAs
  <2>2. story' = <<>> /\ work' = <<>> /\ page' = 1
    BY <1>1, <2>1 DEF MarkInv, Drawing, MarksBegin, StoryBegins, storyVars
  <2>3. OrderNext /\ CountNext
    BY <1>1, <2>1, <2>2, CountStarts DEF OrderNext, CountNext, TextInv
  <2>4. OrderStory' /\ CountStory'
    BY <2>1, <2>3, OrderSame, CountSame
  <2> QED
    BY <1>1, <1>2, <2>1, <2>4 DEF TextInv
<1>8. CASE UNCHANGED documentVars
  <2>1. StaysAs /\ UNCHANGED <<doing, storyVars>>
    BY <1>8 DEF documentVars, treeVars, StaysAs
  <2>2. story' = story /\ work' = work /\ page' = page
    BY <2>1 DEF storyVars
  <2>3. OrderStory /\ CountStory => OrderStory' /\ CountStory'
    <3>1. OrderStory /\ CountStory => OrderNext /\ CountNext
      BY <2>2 DEF OrderStory, CountStory, OrderNext, CountNext
    <3> QED
      BY <2>1, <3>1, OrderSame, CountSame
  <2>4. AllDrawn(story) => AllDrawn(story)'
    BY <2>1, <2>2, DrawnSame
  <2> QED
    BY <1>1, <1>2, <2>1, <2>3, <2>4 DEF TextInv
<1> QED
  BY <1>3, <1>4, <1>5, <1>6, <1>7, <1>8 DEF DocumentNext, DomNext

LEMMA TextInvariant == TextInv => DrawnOnceInOrder
<1> SUFFICES ASSUME TextInv, doing = "done" PROVE DrawnOnceInOrder
  BY DEF DrawnOnceInOrder
<1>1. AllDrawn(story) /\ TreeIsFile
  BY DEF TextInv, MarkInv, DocumentInv, ConvInv
<1>2. \A i \in Texts : LinesDrawn(story, i) = IF Visible(i) THEN tree[i].lines ELSE 0
  BY <1>1 DEF AllDrawn, Due
<1> DEFINE paths == [m \in DOMAIN story |-> IF story[m].id \in Texts THEN Path(story[m].id) ELSE {}]
<1>3. ASSUME NEW m \in DOMAIN story, NEW n \in 1..(m - 1), NEW x \in paths[m], NEW y \in paths[n],
             tree[x].parent = tree[y].parent
      PROVE  ~Precedes(x, y)
  <2>1. Places(story) /\ IsList(story)
    BY <1>1, ListPlaces DEF AllDrawn, Lined
  <2>2. m \in 1..Len(story) /\ n \in 1..Len(story) /\ n < m /\ n \in DOMAIN story
    BY <2>1 DEF Places
  <2>3. story[m].id \in Texts /\ x \in Path(story[m].id)
    OBVIOUS
  <2>4. story[n].id \in Texts /\ y \in Path(story[n].id)
    BY <2>2
  <2>5. InOrder(story[n].id, story[m].id)
    BY <1>1, <2>2, <2>3, <2>4 DEF AllDrawn, TextsInOrder
  <2> QED
    BY <1>3, <2>3, <2>4, <2>5 DEF InOrder
<1> HIDE DEF paths
<1>4. \A m \in DOMAIN story : \A n \in 1..(m - 1) : \A x \in paths[m], y \in paths[n] :
        tree[x].parent = tree[y].parent => ~Precedes(x, y)
  BY <1>3
<1> QED
  BY <1>2, <1>4 DEF DrawnOnceInOrder, paths

(* Of every document the parser can make and whatever a client did to it,  *)
(* a text that is to be seen is drawn once, every line of it, and no other *)
(* is; and the texts come in the order of the tree, outlines from top to   *)
(* bottom, however paragraphs are split over the pages.                    *)
THEOREM TextsDrawnOnce == DocumentSpec => []DrawnOnceInOrder
<1>1. DocumentInit => TextInv
  <2>1. DocumentInit => DocumentInv
    BY DocumentBegins
  <2>2. DocumentInit => MarkInv
    BY <2>1 DEF MarkInv, DocumentInit, TreeInit, StoryInit, Drawing, MarksBegin, StoryBegins
  <2>3. DocumentInit => FullInv
    BY FullInit DEF DocumentInit
  <2> QED
    BY <2>2, <2>3 DEF TextInv, DocumentInit, TreeInit
<1>2. TextInv /\ [DocumentNext]_documentVars => TextInv'
  BY TextKeeps
<1>3. TextInv => DrawnOnceInOrder
  BY TextInvariant
<1> QED
  BY <1>1, <1>2, <1>3, PTL DEF DocumentSpec
=============================================================================
