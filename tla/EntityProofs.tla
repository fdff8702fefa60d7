------------------------------ MODULE EntityProofs ------------------------------
(***************************************************************************)
(* Proofs about TextRuns, GraphWalk and OutlineParser: texts of any length *)
(* with any places to cut them, graphs of any shape with any bounds, and   *)
(* nodes with any properties whose references are hidden in any way; and   *)
(* about GidTable, through whose tables their ids are resolved.            *)
(***************************************************************************)
EXTENDS TextRuns, GraphWalk, OutlineParser, GidTable, SequenceTheorems, FiniteSetTheorems,
        WellFoundedInduction, TLAPS

-----------------------------------------------------------------------------
(* Least elements.                                                         *)

(* A set of numbers that is not empty has a least element: the intervals   *)
(* up to its elements are finite sets, and inclusion of those is           *)
(* well-founded.                                                           *)
LEMMA LeastNatural ==
    ASSUME NEW T, T \subseteq Nat, T # {}
    PROVE  \E x \in T : \A y \in T : x <= y
<1> DEFINE F == {0..n : n \in T}
<1>1. \A n \in Nat : 0..n \in FiniteSubsetsOf(Nat)
  <2> TAKE n \in Nat
  <2>1. IsFiniteSet(0..n)
    BY FS_Interval
  <2> QED
    BY <2>1 DEF FiniteSubsetsOf
<1>2. F \subseteq FiniteSubsetsOf(Nat) /\ F # {}
  BY <1>1
<1>3. \E x \in F : \A y \in F : ~ (<<y, x>> \in StrictSubsetOrdering(Nat))
  <2> HIDE DEF F
  <2> QED
    BY <1>2, FS_StrictSubsetOrderingWellFounded, WFMin
<1>4. PICK n \in T : \A m \in T : ~ (<<0..m, 0..n>> \in StrictSubsetOrdering(Nat))
  BY <1>3
<1>5. \A m \in T : n <= m
  <2> SUFFICES ASSUME NEW m \in T, m < n PROVE FALSE
    OBVIOUS
  <2>1. n \in 0..n /\ n \notin 0..m
    OBVIOUS
  <2>2. 0..m \subseteq 0..n /\ 0..m # 0..n /\ 0..m \subseteq Nat /\ 0..n \subseteq Nat
    BY <2>1
  <2> QED
    BY <1>4, <2>2 DEF StrictSubsetOrdering
<1> QED
  BY <1>5

LEMMA MinOf ==
    ASSUME NEW S, S \subseteq Nat, S # {}
    PROVE  Min(S) \in S /\ \A x \in S : Min(S) <= x
<1>1. \E x \in S : \A y \in S : x <= y
  BY LeastNatural
<1> QED
  BY <1>1 DEF Min

LEMMA MinOfTwo ==
    ASSUME NEW a \in Nat, NEW b \in Nat
    PROVE  Min({a, b}) = IF a <= b THEN a ELSE b
<1>1. Min({a, b}) \in {a, b} /\ \A x \in {a, b} : Min({a, b}) <= x
  <2> DEFINE S == {a, b}
  <2>1. S \subseteq Nat /\ S # {}
    OBVIOUS
  <2> HIDE DEF S
  <2>2. Min(S) \in S /\ \A x \in S : Min(S) <= x
    BY <2>1, MinOf
  <2> QED
    BY <2>2 DEF S
<1> QED
  BY <1>1

-----------------------------------------------------------------------------
(* Runs that lie side by side from 0 on.                                   *)

RunRecords  == [start : Nat, end : Nat, style : Nat, link : Int]
SpanRecords == [start : Nat, end : Nat, link : Nat]

Tiling(rs, to) ==
    /\ rs = <<>> => to = 0
    /\ rs # <<>> => rs[1].start = 0 /\ rs[Len(rs)].end = to
    /\ \A i \in 1..(Len(rs) - 1) : rs[i].end = rs[i + 1].start
    /\ \A i \in 1..Len(rs) : rs[i].start < rs[i].end

LEMMA TilingAppend ==
    ASSUME NEW rs \in Seq(RunRecords), NEW run \in RunRecords,
           Tiling(rs, run.start), run.start < run.end
    PROVE  Tiling(Append(rs, run), run.end)
<1> DEFINE t == Append(rs, run)
<1>1. /\ Len(rs) \in Nat /\ t # <<>> /\ Len(t) = Len(rs) + 1
      /\ t[Len(rs) + 1] = run /\ \A i \in 1..Len(rs) : t[i] = rs[i]
      /\ rs = <<>> <=> Len(rs) = 0
  OBVIOUS
<1> HIDE DEF t
<1>2. t[1].start = 0
  <2>1. CASE rs = <<>>
    BY <1>1, <2>1 DEF Tiling
  <2>2. CASE rs # <<>>
    BY <1>1, <2>2 DEF Tiling
  <2> QED
    BY <2>1, <2>2
<1>3. ASSUME NEW i \in 1..(Len(t) - 1) PROVE t[i].end = t[i + 1].start
  <2>1. CASE i = Len(rs)
    BY <1>1, <2>1 DEF Tiling
  <2>2. CASE i # Len(rs)
    BY <1>1, <2>2 DEF Tiling
  <2> QED
    BY <2>1, <2>2
<1>4. ASSUME NEW i \in 1..Len(t) PROVE t[i].start < t[i].end
  BY <1>1 DEF Tiling
<1>5. Tiling(t, run.end)
  BY <1>1, <1>2, <1>3, <1>4 DEF Tiling
<1> QED
  BY <1>5 DEF t

LEMMA TilingCovers ==
    ASSUME NEW rs \in Seq(RunRecords), NEW to \in Nat, Tiling(rs, to), NEW place \in 1..to
    PROVE  \E k \in 1..Len(rs) : Covers(rs[k], place)
<1> DEFINE K == {k \in 1..Len(rs) : rs[k].end >= place}
<1>1. Len(rs) \in Nat /\ Len(rs) # 0 /\ rs[Len(rs)].end = to
  BY DEF Tiling
<1>2. \A i \in 1..Len(rs) : rs[i].start \in Nat /\ rs[i].end \in Nat
  <2>1. \A i \in 1..Len(rs) : rs[i] \in RunRecords
    OBVIOUS
  <2> QED
    BY <2>1 DEF RunRecords
<1>3. PICK k \in K : \A j \in K : k <= j
  <2>1. K \subseteq Nat /\ Len(rs) \in K
    BY <1>1
  <2> QED
    BY <2>1, LeastNatural
<1>4. rs[k].start < place
  <2>1. CASE k = 1
    BY <1>1, <2>1 DEF Tiling
  <2>2. CASE k # 1
    <3>1. k - 1 \in 1..(Len(rs) - 1) /\ k - 1 \notin K
      BY <1>1, <1>3, <2>2
    <3>2. rs[k - 1].end < place
      BY <1>2, <3>1
    <3>3. rs[k - 1].end = rs[k].start
      BY <3>1 DEF Tiling
    <3> QED
      BY <3>2, <3>3
  <2> QED
    BY <2>1, <2>2
<1> QED
  BY <1>4 DEF Covers

-----------------------------------------------------------------------------
(* The cut of a text into runs.  What has been cut so far is tiled, every  *)
(* symbol in it has the format of the first index that reaches it, and the *)
(* indices that were taken or passed over reach nothing behind it.         *)

TextTypes ==
    /\ text \in Seq(Symbols) /\ ends \in Seq(Nat) /\ formats \in Seq(BOOLEAN)
    /\ doing \in {"cutting", "fields", "linking", "done"}
    /\ next \in 1..(Len(ends) + 1)
    /\ start \in 0..Len(text)
    /\ runs \in Seq(RunRecords) /\ spans \in Seq(SpanRecords)
    /\ scan \in Nat

Cut == IF doing = "cutting" THEN start ELSE Len(text)

FirstToReach(place, i) ==
    /\ ends[i] + 1 >= place
    /\ \A j \in 1..(i - 1) : ends[j] + 1 < place

Styled(rs, to) ==
    \A place \in 1..to, i \in 1..Len(ends) : FirstToReach(place, i) =>
        \E k \in 1..Len(rs) : Covers(rs[k], place) /\ rs[k].style = FormatAt(i)

CutInv ==
    /\ TextTypes
    /\ \/ doing = "done" /\ runs = <<>>
       \/ Tiling(runs, Cut) /\ Styled(runs, Cut)
    /\ doing = "cutting" =>
         \A j \in 1..(next - 1) : ends[j] + 1 <= start \/ start = Len(text)

LEMMA FormatAtType ==
    ASSUME TextTypes, NEW i \in Nat \ {0}
    PROVE  FormatAt(i) \in Nat
BY DEF TextTypes, FormatAt

LEMMA RunType ==
    ASSUME NEW from \in Nat, NEW to \in Nat, NEW style \in Nat
    PROVE  /\ Run(from, to, style) \in RunRecords
           /\ Run(from, to, style).start = from /\ Run(from, to, style).end = to
           /\ Run(from, to, style).style = style
           /\ Run(from, to, style).link < 0
BY DEF Run, RunRecords, NoLink, OwnLink

LEMMA EndOfRunIs ==
    ASSUME TextTypes, Cutting
    PROVE  /\ EndOfRun \in 1..Len(text)
           /\ EndOfRun = ends[next] + 1 \/ (EndOfRun = Len(text) /\ EndOfRun <= ends[next] + 1)
<1>1. ends[next] \in Nat /\ Len(text) - 1 \in Nat /\ Len(text) \in Nat
  BY DEF TextTypes, Cutting
<1>2. EndOfRun = (IF ends[next] <= Len(text) - 1 THEN ends[next] ELSE Len(text) - 1) + 1
  BY <1>1, MinOfTwo DEF EndOfRun
<1> QED
  BY <1>1, <1>2

LEMMA StyledAppend ==
    ASSUME TextTypes, Styled(runs, start), NEW run \in RunRecords, run.start = start,
           \A place \in (start + 1)..run.end, i \in 1..Len(ends) :
               FirstToReach(place, i) => run.style = FormatAt(i)
    PROVE  Styled(Append(runs, run), run.end)
<1> DEFINE t == Append(runs, run)
<1>1. /\ Len(runs) \in Nat /\ Len(t) = Len(runs) + 1
      /\ t[Len(runs) + 1] = run /\ \A i \in 1..Len(runs) : t[i] = runs[i]
  BY DEF TextTypes
<1>2. start \in Nat /\ run.end \in Nat
  BY DEF TextTypes, RunRecords
<1> HIDE DEF t
<1>3. ASSUME NEW place \in 1..run.end, NEW i \in 1..Len(ends), FirstToReach(place, i)
      PROVE  \E k \in 1..Len(t) : Covers(t[k], place) /\ t[k].style = FormatAt(i)
  <2>1. CASE place <= start
    <3>1. place \in 1..start
      BY <1>2, <2>1
    <3>2. PICK k \in 1..Len(runs) : Covers(runs[k], place) /\ runs[k].style = FormatAt(i)
      BY <1>3, <3>1 DEF Styled
    <3> QED
      BY <1>1, <3>2
  <2>2. CASE place > start
    <3>1. run.style = FormatAt(i) /\ Covers(run, place)
      BY <1>2, <1>3, <2>2 DEF Covers
    <3> QED
      BY <1>1, <3>1
  <2> QED
    BY <1>2, <2>1, <2>2
<1>4. Styled(t, run.end)
  BY <1>3 DEF Styled
<1> QED
  BY <1>4 DEF t

LEMMA CutTakeEnd == ASSUME CutInv, TakeEnd PROVE CutInv'
<1> DEFINE run == Run(start, EndOfRun, FormatAt(next))
<1>0. TextTypes /\ doing = "cutting" /\ Cutting /\ next <= Len(ends) /\ start < Len(text)
  BY DEF CutInv, TakeEnd, Cutting
<1>1. /\ EndOfRun \in 1..Len(text) /\ EndOfRun > start
      /\ EndOfRun = ends[next] + 1 \/ (EndOfRun = Len(text) /\ EndOfRun <= ends[next] + 1)
  BY <1>0, EndOfRunIs DEF TakeEnd
<1>2. /\ start \in Nat /\ next \in Nat \ {0} /\ Len(text) \in Nat /\ Len(ends) \in Nat
      /\ \A i \in 1..Len(ends) : ends[i] \in Nat
  BY <1>0 DEF TextTypes
<1>3. FormatAt(next) \in Nat
  BY <1>0, <1>2, FormatAtType
<1>4. run \in RunRecords /\ run.start = start /\ run.end = EndOfRun /\ run.style = FormatAt(next)
  <2>1. start \in Nat /\ EndOfRun \in Nat
    BY <1>1, <1>2
  <2> QED
    BY <2>1, <1>3, RunType
<1>5. /\ runs' = Append(runs, run) /\ start' = EndOfRun /\ next' = next + 1
      /\ UNCHANGED <<text, ends, formats, doing, scan, spans>>
  BY DEF TakeEnd
<1> HIDE DEF run
<1>6. TextTypes'
  <2>1. Append(runs, run) \in Seq(RunRecords)
    BY <1>0, <1>4 DEF TextTypes
  <2> QED
    BY <1>0, <1>1, <1>2, <1>5, <2>1 DEF TextTypes
<1>7. Tiling(runs, start) /\ Styled(runs, start)
  <2>1. CASE doing = "done" /\ runs = <<>>
    BY <1>0, <2>1
  <2> QED
    BY <1>0, <2>1 DEF CutInv, Cut
<1>8. Tiling(Append(runs, run), EndOfRun)
  BY <1>0, <1>1, <1>4, <1>7, TilingAppend DEF TextTypes
<1>9. ASSUME NEW place \in (start + 1)..EndOfRun, NEW i \in 1..Len(ends), FirstToReach(place, i)
      PROVE  i = next
  <2>1. \A j \in 1..(next - 1) : ends[j] + 1 <= start
    BY <1>0, <1>2 DEF CutInv
  <2>2. i >= next
    <3> SUFFICES ASSUME i < next PROVE FALSE
      BY <1>2
    <3>1. ends[i] + 1 <= start /\ ends[i] + 1 >= place /\ ends[i] \in Nat
      BY <1>2, <2>1, <1>9 DEF FirstToReach
    <3> QED
      BY <1>2, <3>1
  <2>3. i <= next
    <3> SUFFICES ASSUME i > next PROVE FALSE
      BY <1>2
    <3>1. ends[next] + 1 < place /\ ends[next] \in Nat
      BY <1>0, <1>2, <1>9 DEF FirstToReach
    <3> QED
      BY <1>1, <1>2, <3>1
  <2> QED
    BY <1>2, <2>2, <2>3
<1>10. Styled(Append(runs, run), EndOfRun)
  <2>1. \A place \in (start + 1)..run.end, i \in 1..Len(ends) :
            FirstToReach(place, i) => run.style = FormatAt(i)
    BY <1>4, <1>9
  <2>2. Styled(Append(runs, run), run.end)
    BY <1>0, <1>4, <1>7, <2>1, StyledAppend
  <2> QED
    BY <1>4, <2>2
<1>11. Tiling(runs, Cut)' /\ Styled(runs, Cut)'
  <2>1. (Cut)' = EndOfRun
    BY <1>0, <1>5 DEF Cut
  <2>2. Tiling(runs, Cut)'
    BY <1>5, <1>8, <2>1 DEF Tiling
  <2>3. Styled(runs, Cut)'
    BY <1>5, <1>10, <2>1 DEF Styled, FirstToReach, FormatAt
  <2> QED
    BY <2>2, <2>3
<1>12. ASSUME NEW j \in 1..next PROVE ends[j] + 1 <= EndOfRun \/ EndOfRun = Len(text)
  <2>1. CASE j = next
    BY <1>0, <1>1, <1>2, <2>1
  <2>2. CASE j # next
    <3>1. j \in 1..(next - 1)
      BY <1>2, <2>2
    <3>2. ends[j] + 1 <= start
      BY <1>0, <1>2, <3>1 DEF CutInv
    <3> QED
      BY <1>0, <1>1, <1>2, <3>1, <3>2
  <2> QED
    BY <2>1, <2>2
<1>13. next' - 1 = next
  BY <1>2, <1>5
<1> QED
  BY <1>5, <1>6, <1>11, <1>12, <1>13 DEF CutInv

LEMMA CutPassEnd == ASSUME CutInv, PassEnd PROVE CutInv'
<1>0. TextTypes /\ doing = "cutting" /\ Cutting /\ next <= Len(ends) /\ EndOfRun <= start
  BY DEF CutInv, PassEnd, Cutting
<1>1. /\ next' = next + 1
      /\ UNCHANGED <<text, ends, formats, doing, start, runs, scan, spans>>
  BY DEF PassEnd
<1>2. /\ EndOfRun \in 1..Len(text)
      /\ EndOfRun = ends[next] + 1 \/ (EndOfRun = Len(text) /\ EndOfRun <= ends[next] + 1)
  BY <1>0, EndOfRunIs
<1>3. TextTypes'
  BY <1>0, <1>1 DEF TextTypes
<1>4. start \in 0..Len(text) /\ next \in Nat \ {0} /\ Len(text) \in Nat
  BY <1>0 DEF TextTypes
<1>5. \A j \in 1..next : ends[j] + 1 <= start \/ start = Len(text)
  <2> TAKE j \in 1..next
  <2>1. CASE j = next
    BY <1>0, <1>2, <1>4, <2>1
  <2>2. CASE j # next
    <3>1. j \in 1..(next - 1)
      BY <1>4, <2>2
    <3> QED
      BY <1>0, <3>1 DEF CutInv
  <2> QED
    BY <2>1, <2>2
<1>6. (Cut)' = Cut
  BY <1>1 DEF Cut
<1>7. Tiling(runs, Cut)' /\ Styled(runs, Cut)'
  <2>1. Tiling(runs, Cut) /\ Styled(runs, Cut)
    BY <1>0 DEF CutInv
  <2>2. Tiling(runs, Cut)'
    BY <1>1, <1>6, <2>1 DEF Tiling
  <2>3. Styled(runs, Cut)'
    BY <1>1, <1>6, <2>1 DEF Styled, FirstToReach, FormatAt
  <2> QED
    BY <2>2, <2>3
<1>8. next' - 1 = next
  BY <1>1, <1>4
<1> QED
  BY <1>1, <1>3, <1>5, <1>7, <1>8 DEF CutInv

LEMMA CutExtend == ASSUME CutInv, Extend PROVE CutInv'
<1> DEFINE style == IF runs = <<>> THEN 0 ELSE Last(runs).style
           run   == Run(start, Len(text), style)
<1>0. TextTypes /\ doing = "cutting" /\ (next > Len(ends) \/ start >= Len(text))
  BY DEF CutInv, TextTypes, Extend, Cutting
<1>1. start \in 0..Len(text) /\ next \in 1..(Len(ends)+1) /\ Len(text) \in Nat /\ Len(ends) \in Nat
      /\ \A i \in 1..Len(ends) : ends[i] \in Nat
  BY <1>0 DEF TextTypes
<1>2. /\ runs' = IF start = Len(text) THEN runs ELSE Append(runs, run)
      /\ doing' = "fields"
      /\ UNCHANGED <<text, ends, formats, next, start, scan, spans>>
  BY DEF Extend
<1>3. style \in Nat
  <2>1. CASE runs = <<>>
    BY <2>1
  <2>2. CASE runs # <<>>
    <3>1. runs[Len(runs)] \in RunRecords
      BY <1>0, <2>2 DEF TextTypes
    <3> QED
      BY <2>2, <3>1 DEF Last, RunRecords
  <2> QED
    BY <2>1, <2>2
<1> HIDE DEF style
<1>4. run \in RunRecords /\ run.start = start /\ run.end = Len(text)
  <2>1. start \in Nat /\ Len(text) \in Nat
    BY <1>1
  <2> QED
    BY <2>1, <1>3, RunType
<1> HIDE DEF run
<1>5. TextTypes'
  <2>1. Append(runs, run) \in Seq(RunRecords)
    BY <1>0, <1>4 DEF TextTypes
  <2> QED
    BY <1>0, <1>2, <2>1 DEF TextTypes
<1>6. Tiling(runs, start) /\ Styled(runs, start)
  BY <1>0 DEF CutInv, Cut
<1>7. (Cut)' = Len(text)
  BY <1>2 DEF Cut
<1>8. Tiling(runs', Len(text)) /\ Styled(runs', Len(text))
  <2>1. CASE start = Len(text)
    BY <1>2, <1>6, <2>1
  <2>2. CASE start # Len(text)
    <3>1. start < Len(text) /\ next > Len(ends)
      BY <1>0, <1>1, <2>2
    <3>2. Tiling(Append(runs, run), Len(text))
      BY <1>0, <1>4, <1>6, <3>1, TilingAppend DEF TextTypes
    <3>3. ASSUME NEW place \in (start + 1)..Len(text), NEW i \in 1..Len(ends), FirstToReach(place, i)
          PROVE  FALSE
      <4>1. i \in 1..(next - 1)
        BY <1>1, <3>1
      <4>2. ends[i] + 1 <= start
        BY <1>0, <3>1, <4>1, <1>1 DEF CutInv
      <4> QED
        BY <1>1, <3>3, <4>2 DEF FirstToReach
    <3>4. Styled(Append(runs, run), run.end)
      BY <1>0, <1>4, <1>6, <3>3, StyledAppend
    <3> QED
      BY <1>2, <1>4, <2>2, <3>2, <3>4
  <2> QED
    BY <2>1, <2>2
<1>9. Tiling(runs, Cut)' /\ Styled(runs, Cut)'
  <2>1. Tiling(runs, Cut)'
    BY <1>7, <1>8 DEF Tiling
  <2>2. Styled(runs, Cut)'
    BY <1>2, <1>7, <1>8 DEF Styled, FirstToReach, FormatAt
  <2> QED
    BY <2>1, <2>2
<1> QED
  BY <1>2, <1>5, <1>9 DEF CutInv

-----------------------------------------------------------------------------
(* The search for fields.  A span of display text holds no marker and no   *)
(* full stop, and until the spans are laid over the runs a run has at most *)
(* a link of its own.                                                      *)

LEMMA FindIs ==
    ASSUME TextTypes, NEW symbol, NEW from \in Nat
    PROVE  /\ Find(symbol, from) \in Nat \cup {-1}
           /\ Find(symbol, from) # -1 => Find(symbol, from) \in from..(Len(text) - 1)
           /\ \A i \in from..(Len(text) - 1) : text[i + 1] = symbol =>
                Find(symbol, from) \in from..i
<1> DEFINE S == {i \in from..(Len(text) - 1) : text[i + 1] = symbol}
<1>1. S \subseteq Nat /\ Len(text) \in Nat
  BY DEF TextTypes
<1>2. CASE S = {}
  <2>1. Find(symbol, from) = -1
    BY <1>2 DEF Find
  <2> QED
    BY <1>2, <2>1
<1>3. CASE S # {}
  <2>1. Find(symbol, from) = Min(S)
    BY <1>3 DEF Find
  <2>2. Min(S) \in S /\ \A i \in S : Min(S) <= i
    BY <1>1, <1>3, MinOf
  <2> HIDE DEF S
  <2>3. Min(S) \in from..(Len(text) - 1) /\ Min(S) \in Nat
    BY <1>1, <2>2 DEF S
  <2>4. ASSUME NEW i \in from..(Len(text) - 1), text[i + 1] = symbol PROVE Min(S) \in from..i
    <3>1. i \in S
      BY <2>4 DEF S
    <3> QED
      BY <1>1, <2>2, <2>3, <3>1
  <2> QED
    BY <1>1, <2>1, <2>3, <2>4
<1> QED
  BY <1>2, <1>3

LEMMA DisplayEndIs ==
    ASSUME TextTypes, NEW from \in Nat
    PROVE  /\ DisplayEnd(from) \in 0..Len(text)
           /\ \A place \in (from + 1)..DisplayEnd(from) : text[place] \notin {"marker", "dot"}
<1> DEFINE stops == {stop \in {Find("dot", from), Find("marker", from)} : stop >= 0}
           S     == {Len(text)} \cup stops
<1>1. Len(text) \in Nat
  BY DEF TextTypes
<1>2. \A symbol \in {"dot", "marker"} : Find(symbol, from) \in Nat \cup {-1}
  BY FindIs
<1>3. S \subseteq Nat /\ S # {}
  BY <1>1, <1>2
<1>4. DisplayEnd(from) = Min(S)
  BY DEF DisplayEnd
<1>5. Min(S) \in S /\ \A x \in S : Min(S) <= x
  <2> HIDE DEF S
  <2> QED
    BY <1>3, MinOf
<1>6. Min(S) \in 0..Len(text)
  BY <1>1, <1>3, <1>5
<1>7. ASSUME NEW symbol \in {"dot", "marker"}, NEW place \in (from + 1)..Min(S),
             text[place] = symbol
      PROVE  FALSE
  <2>1. place - 1 \in from..(Len(text) - 1) /\ text[(place - 1) + 1] = symbol
    BY <1>1, <1>6, <1>7
  <2>2. Find(symbol, from) \in from..(place - 1)
    BY <2>1, FindIs
  <2>3. Find(symbol, from) \in S
    BY <2>2
  <2> HIDE DEF S
  <2>4. Min(S) <= Find(symbol, from) /\ Min(S) \in Nat
    BY <1>5, <1>6, <2>3
  <2> QED
    BY <2>2, <2>4
<1> QED
  BY <1>4, <1>6, <1>7

SpanWithin(span) ==
    /\ span.start < span.end /\ span.end <= Len(text)
    /\ \A place \in (span.start + 1)..span.end : text[place] \notin {"marker", "dot"}

FieldInv ==
    /\ \A k \in 1..Len(spans) : SpanWithin(spans[k])
    /\ doing # "done" => \A k \in 1..Len(runs) : runs[k].link < 0
    /\ FieldsAreLinks

LEMMA TakeFieldIs ==
    ASSUME TextTypes, TakeField
    PROVE  /\ scan' \in Nat
           /\ \/ spans' = spans
              \/ \E span \in SpanRecords : spans' = Append(spans, span) /\ SpanWithin(span)
<1> DEFINE from == Closing + 1
           to   == DisplayEnd(from)
           span == [start |-> from, end |-> to, link |-> Opening]
<1>1. Marker \in Nat
  <2>1. Marker \in Nat \cup {-1}
    BY FindIs DEF Marker, TextTypes
  <2> QED
    BY <2>1 DEF TakeField
<1>2. Opening \in Nat \cup {-1}
  BY <1>1, FindIs DEF Opening
<1>3. Closing \in Nat /\ Opening \in Nat
  <2>1. Closing >= 0
    BY DEF TakeField, IsField
  <2>2. Opening \in Nat
    BY <1>2, <2>1 DEF Closing
  <2>3. Closing = Find("quote", Opening + 1)
    BY <2>2 DEF Closing
  <2> QED
    BY <2>1, <2>2, <2>3, FindIs
<1>4. from \in Nat
  BY <1>3
<1>5. to \in 0..Len(text) /\ \A place \in (from + 1)..to : text[place] \notin {"marker", "dot"}
  BY <1>4, DisplayEndIs
<1>6. Len(text) \in Nat
  BY DEF TextTypes
<1>7. /\ scan' = to
      /\ spans' = IF to > from /\ Closing > Opening + 1 THEN Append(spans, span) ELSE spans
  BY DEF TakeField
<1> HIDE DEF to, from
<1>8. span \in SpanRecords
  BY <1>3, <1>4, <1>5, <1>6 DEF SpanRecords
<1>9. ASSUME to > from PROVE SpanWithin(span)
  BY <1>4, <1>5, <1>6, <1>9 DEF SpanWithin
<1> QED
  BY <1>5, <1>6, <1>7, <1>8, <1>9

LEMMA LinkedIs ==
    ASSUME TextTypes, NEW run \in RunRecords
    PROVE  /\ Linked(run) \in RunRecords
           /\ Linked(run).start = run.start /\ Linked(run).end = run.end
           /\ Linked(run).style = run.style
           /\ \/ Linked(run).link = run.link
              \/ \E k \in 1..Len(spans) :
                   Overlap(run, spans[k]) /\ Linked(run).link = spans[k].link
           /\ (\E k \in 1..Len(spans) : Overlap(run, spans[k])) => Linked(run).link # NoLink
<1> DEFINE H   == {k \in 1..Len(spans) : Overlap(run, spans[k])}
           hit == SelectInSeq(spans, LAMBDA span : Overlap(run, span))
<1>0. hit = IF H # {} THEN Min(H) ELSE 0
  BY DEF SelectInSeq
<1>1. H \subseteq Nat /\ (H # {} => Min(H) \in H)
  <2>1. H \subseteq Nat
    BY DEF TextTypes
  <2> HIDE DEF H
  <2> QED
    BY <2>1, MinOf
<1>2. Linked(run) = IF run.link # NoLink \/ hit = 0 THEN run ELSE [run EXCEPT !.link = spans[hit].link]
  BY DEF Linked
<1> HIDE DEF hit
<1>3. \A k \in H : spans[k].link \in Nat
  <2>1. \A k \in H : spans[k] \in SpanRecords
    BY DEF TextTypes
  <2> QED
    BY <2>1 DEF SpanRecords
<1>4. CASE run.link # NoLink
  BY <1>2, <1>4
<1>5. CASE run.link = NoLink /\ H = {}
  BY <1>0, <1>2, <1>5
<1>6. CASE run.link = NoLink /\ H # {}
  <2>1. hit \in H /\ hit # 0
    BY <1>0, <1>1, <1>6
  <2>2. Linked(run) = [run EXCEPT !.link = spans[hit].link] /\ spans[hit].link \in Nat
    BY <1>2, <1>3, <1>6, <2>1
  <2>3. /\ Linked(run) \in RunRecords
        /\ Linked(run).start = run.start /\ Linked(run).end = run.end
        /\ Linked(run).style = run.style /\ Linked(run).link = spans[hit].link
    BY <2>2 DEF RunRecords
  <2> QED
    BY <2>1, <2>2, <2>3 DEF NoLink
<1> QED
  BY <1>4, <1>5, <1>6

LEMMA LinkedRuns ==
    ASSUME TextTypes, LinkRuns
    PROVE  /\ runs' \in Seq(RunRecords) /\ Len(runs') = Len(runs)
           /\ \A i \in 1..Len(runs) : runs'[i] = Linked(runs[i]) /\ runs[i] \in RunRecords
           /\ runs' = <<>> <=> runs = <<>>
<1>1. DOMAIN runs = 1..Len(runs) /\ Len(runs) \in Nat
      /\ \A i \in 1..Len(runs) : runs[i] \in RunRecords
  BY DEF TextTypes
<1>2. runs' = [i \in 1..Len(runs) |-> Linked(runs[i])]
  BY <1>1 DEF LinkRuns
<1>3. \A i \in 1..Len(runs) : Linked(runs[i]) \in RunRecords
  BY <1>1, LinkedIs
<1>4. runs' \in Seq(RunRecords) /\ Len(runs') = Len(runs)
  <2> DEFINE n == Len(runs)
  <2>1. runs' \in [1..n -> RunRecords]
    BY <1>2, <1>3
  <2>2. n \in Nat
    BY <1>1
  <2> HIDE DEF n
  <2>3. runs' \in Seq(RunRecords) /\ Len(runs') = n
    BY <2>1, <2>2
  <2> QED
    BY <2>3 DEF n
<1>5. runs' = <<>> <=> runs = <<>>
  BY <1>1, <1>4 DEF TextTypes
<1> QED
  BY <1>1, <1>2, <1>4, <1>5

LEMMA CutLink == ASSUME CutInv, LinkRuns PROVE CutInv'
<1>0. TextTypes /\ doing = "linking" /\ Cut = Len(text)
  BY DEF CutInv, LinkRuns, Cut
<1>1. /\ doing' = "done"
      /\ UNCHANGED <<text, ends, formats, next, start, scan, spans>>
  BY DEF LinkRuns
<1>2. /\ runs' \in Seq(RunRecords) /\ Len(runs') = Len(runs)
      /\ \A i \in 1..Len(runs) : runs'[i] = Linked(runs[i]) /\ runs[i] \in RunRecords
      /\ runs' = <<>> <=> runs = <<>>
  BY <1>0, LinkedRuns
<1>3. \A i \in 1..Len(runs) :
          /\ runs'[i].start = runs[i].start /\ runs'[i].end = runs[i].end
          /\ runs'[i].style = runs[i].style
  BY <1>0, <1>2, LinkedIs
<1>4. TextTypes'
  BY <1>0, <1>1, <1>2 DEF TextTypes
<1>5. Tiling(runs, Len(text)) /\ Styled(runs, Len(text))
  BY <1>0 DEF CutInv
<1>6. Len(runs) \in Nat /\ (runs # <<>> => Len(runs) \in 1..Len(runs) /\ 1 \in 1..Len(runs))
  BY <1>0 DEF TextTypes
<1>7. Tiling(runs', Len(text))
  <2>1. \A i \in 1..(Len(runs) - 1) : i \in 1..Len(runs) /\ i + 1 \in 1..Len(runs)
    BY <1>6
  <2>2. ASSUME NEW i \in 1..(Len(runs') - 1) PROVE runs'[i].end = runs'[i + 1].start
    <3>1. runs[i].end = runs[i + 1].start /\ i \in 1..Len(runs) /\ i + 1 \in 1..Len(runs)
      BY <1>2, <1>5, <2>1 DEF Tiling
    <3> QED
      BY <1>3, <3>1
  <2>3. ASSUME NEW i \in 1..Len(runs') PROVE runs'[i].start < runs'[i].end
    BY <1>2, <1>3, <1>5 DEF Tiling
  <2>4. runs' # <<>> => runs'[1].start = 0 /\ runs'[Len(runs')].end = Len(text)
    BY <1>2, <1>3, <1>5, <1>6 DEF Tiling
  <2>5. runs' = <<>> => Len(text) = 0
    BY <1>2, <1>5 DEF Tiling
  <2> QED
    BY <2>2, <2>3, <2>4, <2>5 DEF Tiling
<1>8. \A k \in 1..Len(runs), place \in Nat : Covers(runs[k], place) => Covers(runs'[k], place)
  BY <1>3 DEF Covers
<1>9. Len(text) \in Nat /\ Cut' = Len(text)
  BY <1>0, <1>1 DEF TextTypes, Cut
<1>10. Tiling(runs, Cut)'
  BY <1>7, <1>9 DEF Tiling
<1>11. Styled(runs, Cut)'
  <2> SUFFICES ASSUME NEW place \in 1..Len(text), NEW i \in 1..Len(ends), FirstToReach(place, i)
               PROVE  \E k \in 1..Len(runs') : Covers(runs'[k], place) /\ runs'[k].style = FormatAt(i)
    BY <1>1, <1>9 DEF Styled, FirstToReach, FormatAt
  <2>1. PICK k \in 1..Len(runs) : Covers(runs[k], place) /\ runs[k].style = FormatAt(i)
    BY <1>5 DEF Styled
  <2> QED
    BY <1>2, <1>3, <1>8, <1>9, <2>1
<1> QED
  BY <1>1, <1>4, <1>10, <1>11 DEF CutInv

LEMMA FieldLink == ASSUME CutInv, FieldInv, LinkRuns PROVE FieldInv'
<1>0. TextTypes /\ doing = "linking" /\ Cut = Len(text) /\ Len(text) \in Nat
  BY DEF CutInv, TextTypes, LinkRuns, Cut
<1>1. /\ doing' = "done"
      /\ UNCHANGED <<text, ends, formats, next, start, scan, spans>>
  BY DEF LinkRuns
<1>2. /\ runs' \in Seq(RunRecords) /\ Len(runs') = Len(runs)
      /\ \A i \in 1..Len(runs) : runs'[i] = Linked(runs[i]) /\ runs[i] \in RunRecords
  BY <1>0, LinkedRuns
<1>3. \A i \in 1..Len(runs) :
          /\ runs'[i].start = runs[i].start /\ runs'[i].end = runs[i].end
          /\ \/ runs'[i].link = runs[i].link
             \/ \E k \in 1..Len(spans) :
                  Overlap(runs[i], spans[k]) /\ runs'[i].link = spans[k].link
          /\ (\E k \in 1..Len(spans) : Overlap(runs[i], spans[k])) => runs'[i].link # NoLink
  BY <1>0, <1>2, LinkedIs
<1>4. Tiling(runs, Len(text)) /\ runs \in Seq(RunRecords)
  BY <1>0 DEF CutInv, TextTypes
<1>5. /\ \A k \in 1..Len(spans) : SpanWithin(spans[k])
      /\ \A k \in 1..Len(runs) : runs[k].link < 0
  BY <1>0 DEF FieldInv
<1>6. \A k \in 1..Len(spans) : spans[k].start \in Nat /\ spans[k].end \in Nat /\ spans[k].link \in Nat
  <2>1. \A k \in 1..Len(spans) : spans[k] \in SpanRecords
    BY <1>0 DEF TextTypes
  <2> QED
    BY <2>1 DEF SpanRecords
<1>7. \A i \in 1..Len(runs) : runs[i].start \in Nat /\ runs[i].end \in Nat /\ runs[i].link \in Int
  BY <1>2 DEF RunRecords
<1>8. /\ DOMAIN spans = 1..Len(spans) /\ DOMAIN runs' = 1..Len(runs)
      /\ DOMAIN text = 1..Len(text) /\ Len(runs) \in Nat
  BY <1>0, <1>2, <1>4 DEF TextTypes
<1>9. ASSUME NEW k \in 1..Len(spans), NEW place \in (spans[k].start + 1)..spans[k].end
      PROVE  /\ text[place] \notin {"marker", "dot"}
             /\ \E i \in 1..Len(runs) : Covers(runs'[i], place) /\ runs'[i].link # NoLink
  <2>1. place \in 1..Len(text) /\ text[place] \notin {"marker", "dot"}
    BY <1>0, <1>5, <1>6 DEF SpanWithin
  <2>2. PICK i \in 1..Len(runs) : Covers(runs[i], place)
    BY <1>0, <1>4, <2>1, TilingCovers
  <2>3. Overlap(runs[i], spans[k])
    BY <1>6, <1>7, <2>2, <2>1 DEF Overlap, Covers
  <2>4. Covers(runs'[i], place) /\ runs'[i].link # NoLink
    BY <1>3, <2>2, <2>3 DEF Covers
  <2> QED
    BY <2>1, <2>4
<1>10. ASSUME NEW i \in 1..Len(runs), runs'[i].link >= 0
       PROVE  \E k \in 1..Len(spans) :
                /\ spans[k].link = runs'[i].link
                /\ \E place \in 1..Len(text) : Covers(runs'[i], place) /\ Covers(spans[k], place)
  <2>1. PICK k \in 1..Len(spans) : Overlap(runs[i], spans[k]) /\ runs'[i].link = spans[k].link
    BY <1>3, <1>5, <1>7, <1>10
  <2> DEFINE place == IF runs[i].start <= spans[k].start THEN spans[k].start + 1 ELSE runs[i].start + 1
  <2>2. runs[i].start < runs[i].end /\ spans[k].start < spans[k].end /\ spans[k].end <= Len(text)
    BY <1>4, <1>5 DEF Tiling, SpanWithin
  <2>3. place \in 1..Len(text) /\ Covers(runs[i], place) /\ Covers(spans[k], place)
    <3>1. /\ runs[i].start \in Nat /\ runs[i].end \in Nat
          /\ spans[k].start \in Nat /\ spans[k].end \in Nat /\ Len(text) \in Nat
      BY <1>0, <1>6, <1>7
    <3>2. runs[i].start < spans[k].end /\ runs[i].end > spans[k].start
      BY <2>1 DEF Overlap
    <3> HIDE DEF place
    <3>3. /\ place \in Nat /\ runs[i].start < place /\ place <= runs[i].end
          /\ spans[k].start < place /\ place <= spans[k].end
      BY <2>2, <3>1, <3>2 DEF place
    <3> QED
      BY <2>2, <3>1, <3>3 DEF Covers
  <2> HIDE DEF place
  <2>4. Covers(runs'[i], place)
    BY <1>3, <2>3 DEF Covers
  <2> QED
    BY <2>1, <2>3, <2>4
<1>11. FieldsAreLinks'
  <2>1. /\ Range(spans) = {spans[k] : k \in 1..Len(spans)}
        /\ Range(runs') = {runs'[i] : i \in 1..Len(runs)}
    BY <1>8 DEF Range
  <2>2. /\ \A span \in Range(spans) : \A place \in (span.start + 1)..span.end :
             /\ text[place] \notin {"marker", "dot"}
             /\ \E run \in Range(runs') : Covers(run, place) /\ run.link # NoLink
        /\ \A run \in Range(runs') : run.link >= 0 =>
             \E span \in Range(spans) :
               /\ span.link = run.link
               /\ \E place \in DOMAIN text : Covers(run, place) /\ Covers(span, place)
    BY <1>8, <1>9, <1>10, <2>1
  <2> QED
    BY <1>1, <2>2 DEF FieldsAreLinks
<1> QED
  BY <1>1, <1>5, <1>11 DEF FieldInv, SpanWithin

LEMMA TextStart == ASSUME TextInit PROVE CutInv /\ FieldInv
<1>1. /\ text \in Seq(Symbols) /\ ends \in Seq(Nat) /\ formats \in Seq(BOOLEAN)
      /\ next = 1 /\ start = 0 /\ runs = <<>> /\ scan = 0 /\ spans = <<>>
      /\ doing \in {"done", "cutting"}
  BY TextsAreTexts, EndsArePositions, FormatsSayLink DEF TextInit
<1>2. TextTypes
  <2>1. Len(text) \in Nat /\ Len(ends) \in Nat
    BY <1>1
  <2> QED
    BY <1>1, <2>1 DEF TextTypes
<1>3. CASE doing = "done"
  BY <1>1, <1>2, <1>3 DEF CutInv, FieldInv, FieldsAreLinks
<1>4. CASE doing = "cutting"
  <2>1. Cut = 0
    BY <1>1, <1>4 DEF Cut
  <2>2. Tiling(runs, Cut) /\ Styled(runs, Cut)
    BY <1>1, <2>1 DEF Tiling, Styled
  <2> QED
    BY <1>1, <1>2, <1>4, <2>2 DEF CutInv, FieldInv, FieldsAreLinks
<1> QED
  BY <1>1, <1>3, <1>4

LEMMA CutSearch ==
    ASSUME CutInv, UNCHANGED <<text, ends, formats, next, start, runs>>,
           TextTypes', doing \in {"fields", "linking"}, doing' \in {"fields", "linking"}
    PROVE  CutInv'
<1>1. Cut = Len(text) /\ Cut' = Len(text) /\ doing \notin {"done", "cutting"} /\ doing' # "cutting"
  BY DEF Cut
<1>2. Tiling(runs, Len(text)) /\ Styled(runs, Len(text))
  BY <1>1 DEF CutInv
<1>3. Tiling(runs, Cut)'
  BY <1>1, <1>2 DEF Tiling
<1>4. Styled(runs, Cut)'
  BY <1>1, <1>2 DEF Styled, FirstToReach, FormatAt
<1> QED
  BY <1>1, <1>3, <1>4 DEF CutInv

LEMMA TextStep == CutInv /\ FieldInv /\ [TextNext]_textVars => CutInv' /\ FieldInv'
<1> SUFFICES ASSUME CutInv, FieldInv, [TextNext]_textVars PROVE CutInv' /\ FieldInv'
  OBVIOUS
<1>0. TextTypes
  BY DEF CutInv
<1>1. CASE TakeEnd
  <2>1. CutInv'
    BY <1>1, CutTakeEnd
  <2>2. /\ doing = "cutting" /\ UNCHANGED <<text, doing, spans>>
        /\ runs' = Append(runs, Run(start, EndOfRun, FormatAt(next)))
    BY <1>1 DEF TakeEnd, Cutting
  <2>3. Run(start, EndOfRun, FormatAt(next)).link < 0
    BY DEF Run, NoLink, OwnLink
  <2>4. \A k \in 1..Len(runs') : runs'[k].link < 0
    <3> DEFINE run == Run(start, EndOfRun, FormatAt(next))
    <3> HIDE DEF run
    <3>1. /\ Len(Append(runs, run)) = Len(runs) + 1 /\ Append(runs, run)[Len(runs) + 1] = run
          /\ \A i \in 1..Len(runs) : Append(runs, run)[i] = runs[i]
          /\ Len(runs) \in Nat
      BY <1>0 DEF TextTypes
    <3>2. \A k \in 1..Len(runs) : runs[k].link < 0
      BY <2>2 DEF FieldInv
    <3>3. \A k \in 1..(Len(runs) + 1) : k \in 1..Len(runs) \/ k = Len(runs) + 1
      BY <3>1
    <3>4. \A k \in 1..(Len(runs) + 1) : Append(runs, run)[k].link < 0
      BY <2>3, <3>1, <3>2, <3>3 DEF run
    <3> QED
      BY <2>2, <3>1, <3>4 DEF run
  <2> QED
    BY <2>1, <2>2, <2>4 DEF FieldInv, FieldsAreLinks, SpanWithin
<1>2. CASE PassEnd
  <2>1. CutInv'
    BY <1>2, CutPassEnd
  <2>2. doing = "cutting" /\ UNCHANGED <<text, doing, runs, spans>>
    BY <1>2 DEF PassEnd, Cutting
  <2> QED
    BY <2>1, <2>2 DEF FieldInv, FieldsAreLinks, SpanWithin
<1>3. CASE Extend
  <2>1. CutInv'
    BY <1>3, CutExtend
  <2> DEFINE run == Run(start, Len(text), IF runs = <<>> THEN 0 ELSE Last(runs).style)
  <2>2. /\ doing = "cutting" /\ doing' = "fields" /\ UNCHANGED <<text, spans>>
        /\ runs' = IF start = Len(text) THEN runs ELSE Append(runs, run)
    BY <1>3 DEF Extend
  <2>3. run.link < 0
    BY DEF Run, NoLink, OwnLink
  <2> HIDE DEF run
  <2>4. \A k \in 1..Len(runs') : runs'[k].link < 0
    <3>1. /\ Len(Append(runs, run)) = Len(runs) + 1 /\ Append(runs, run)[Len(runs) + 1] = run
          /\ \A i \in 1..Len(runs) : Append(runs, run)[i] = runs[i]
          /\ Len(runs) \in Nat
      BY <1>0 DEF TextTypes
    <3>2. \A k \in 1..Len(runs) : runs[k].link < 0
      BY <2>2 DEF FieldInv
    <3>3. \A k \in 1..(Len(runs) + 1) : k \in 1..Len(runs) \/ k = Len(runs) + 1
      BY <3>1
    <3>4. \A k \in 1..(Len(runs) + 1) : Append(runs, run)[k].link < 0
      BY <2>3, <3>1, <3>2, <3>3
    <3> QED
      BY <2>2, <3>1, <3>2, <3>4
  <2> QED
    BY <2>1, <2>2, <2>4 DEF FieldInv, FieldsAreLinks, SpanWithin
<1>4. CASE PassMarker
  <2>1. /\ doing = "fields" /\ UNCHANGED <<text, ends, formats, doing, next, start, runs, spans>>
        /\ scan' = Marker + 1 /\ Marker >= 0
    BY <1>4 DEF PassMarker
  <2>2. Marker \in Nat
    <3>1. Marker \in Nat \cup {-1}
      BY <1>0, FindIs DEF Marker, TextTypes
    <3> QED
      BY <2>1, <3>1
  <2>3. TextTypes'
    BY <1>0, <2>1, <2>2 DEF TextTypes
  <2>4. CutInv'
    BY <2>1, <2>3, CutSearch
  <2> QED
    BY <2>1, <2>4 DEF FieldInv, FieldsAreLinks, SpanWithin
<1>5. CASE TakeField
  <2>1. /\ doing = "fields" /\ UNCHANGED <<text, ends, formats, doing, next, start, runs>>
        /\ scan' \in Nat
    BY <1>0, <1>5, TakeFieldIs DEF TakeField
  <2>2. CASE spans' = spans
    <3>1. TextTypes'
      BY <1>0, <2>1, <2>2 DEF TextTypes
    <3>2. CutInv'
      BY <2>1, <3>1, CutSearch
    <3> QED
      BY <2>1, <2>2, <3>2 DEF FieldInv, FieldsAreLinks, SpanWithin
  <2>3. CASE \E span \in SpanRecords : spans' = Append(spans, span) /\ SpanWithin(span)
    <3>1. PICK span \in SpanRecords : spans' = Append(spans, span) /\ SpanWithin(span)
      BY <2>3
    <3>2. /\ spans' \in Seq(SpanRecords) /\ Len(spans') = Len(spans) + 1 /\ Len(spans) \in Nat
          /\ spans'[Len(spans) + 1] = span /\ \A i \in 1..Len(spans) : spans'[i] = spans[i]
      BY <1>0, <3>1 DEF TextTypes
    <3>3. TextTypes'
      BY <1>0, <2>1, <3>2 DEF TextTypes
    <3>4. CutInv'
      BY <2>1, <3>3, CutSearch
    <3>5. \A k \in 1..Len(spans') : SpanWithin(spans'[k])
      <4>1. \A k \in 1..(Len(spans) + 1) : k \in 1..Len(spans) \/ k = Len(spans) + 1
        BY <3>2
      <4> QED
        BY <3>1, <3>2, <4>1 DEF FieldInv
    <3>6. (\A k \in 1..Len(spans) : SpanWithin(spans[k]))'
      BY <2>1, <3>5 DEF SpanWithin
    <3> QED
      BY <2>1, <3>4, <3>6 DEF FieldInv, FieldsAreLinks
  <2> QED
    BY <1>0, <1>5, <2>2, <2>3, TakeFieldIs
<1>6. CASE EndFields
  <2>1. /\ doing = "fields" /\ doing' = "linking"
        /\ UNCHANGED <<text, ends, formats, next, start, runs, scan, spans>>
    BY <1>6 DEF EndFields
  <2>2. TextTypes'
    BY <1>0, <2>1 DEF TextTypes
  <2>3. CutInv'
    BY <2>1, <2>2, CutSearch
  <2> QED
    BY <2>1, <2>3 DEF FieldInv, FieldsAreLinks, SpanWithin
<1>7. CASE LinkRuns
  BY <1>7, CutLink, FieldLink
<1>8. CASE TextStop \/ UNCHANGED textVars
  <2>1. UNCHANGED <<text, ends, formats, doing, next, start, runs, scan, spans>>
    BY <1>8 DEF TextStop, textVars
  <2>2. TextTypes' /\ (Cut)' = Cut
    BY <1>0, <2>1 DEF TextTypes, Cut
  <2>3. CutInv'
    BY <2>1, <2>2 DEF CutInv, Tiling, Styled, FirstToReach, FormatAt
  <2>4. FieldsAreLinks'
    BY <2>1 DEF FieldInv, FieldsAreLinks
  <2>5. (\A k \in 1..Len(spans) : SpanWithin(spans[k]))'
    BY <2>1 DEF FieldInv, SpanWithin
  <2>6. (doing # "done" => \A k \in 1..Len(runs) : runs[k].link < 0)'
    BY <2>1 DEF FieldInv
  <2> QED
    BY <2>3, <2>4, <2>5, <2>6 DEF FieldInv
<1> QED
  BY <1>1, <1>2, <1>3, <1>4, <1>5, <1>6, <1>7, <1>8 DEF TextNext

LEMMA CutTiles == CutInv => RunsTile
<1> SUFFICES ASSUME CutInv, doing = "done", runs # <<>> PROVE RunsTile
  BY DEF RunsTile
<1>1. /\ Tiling(runs, Len(text)) /\ Styled(runs, Len(text))
      /\ runs \in Seq(RunRecords) /\ text \in Seq(Symbols) /\ ends \in Seq(Nat)
      /\ formats \in Seq(BOOLEAN)
  BY DEF CutInv, Cut, TextTypes
<1>2. /\ DOMAIN runs = 1..Len(runs) /\ DOMAIN text = 1..Len(text) /\ DOMAIN ends = 1..Len(ends)
      /\ DOMAIN formats = 1..Len(formats) /\ Len(formats) \in Nat /\ Len(ends) \in Nat
  BY <1>1
<1>3. /\ runs[1].start = 0 /\ Last(runs).end = Len(text)
      /\ \A i \in 1..(Len(runs) - 1) : runs[i].end = runs[i + 1].start
      /\ \A i \in DOMAIN runs : runs[i].start < runs[i].end
  BY <1>1, <1>2 DEF Tiling, Last
<1>4. ASSUME NEW place \in DOMAIN text, NEW i \in DOMAIN ends, FirstToReach(place, i)
      PROVE  \E run \in Range(runs) :
               /\ Covers(run, place)
               /\ LET pos == IF Len(formats) = Len(ends) + 1 THEN i + 1 ELSE i IN
                  run.style = IF pos \in DOMAIN formats THEN pos ELSE 0
  <2>1. PICK k \in 1..Len(runs) : Covers(runs[k], place) /\ runs[k].style = FormatAt(i)
    BY <1>1, <1>2, <1>4 DEF Styled
  <2>2. runs[k] \in Range(runs)
    BY <1>2 DEF Range
  <2> DEFINE pos == IF Len(formats) = Len(ends) + 1 THEN i + 1 ELSE i
  <2>3. pos \in Nat /\ pos >= 1 /\ FormatAt(i) = IF pos <= Len(formats) THEN pos ELSE 0
    <3>1. i \in Nat /\ i >= 1
      BY <1>2
    <3>2. pos \in Nat /\ pos >= 1
      BY <3>1
    <3>3. FormatAt(i) = IF pos <= Len(formats) THEN pos ELSE 0
      BY DEF FormatAt
    <3> QED
      BY <3>2, <3>3
  <2> HIDE DEF pos
  <2>4. runs[k].style = IF pos \in DOMAIN formats THEN pos ELSE 0
    BY <1>2, <2>1, <2>3
  <2> QED
    BY <2>1, <2>2, <2>4 DEF pos
<1> QED
  BY <1>3, <1>4 DEF RunsTile, FirstToReach

(* However a text is cut - by indices in any order, behind its end, with   *)
(* formats too many or too few - its runs tile it, and every symbol has    *)
(* the format of the first index that reaches it.                          *)
THEOREM RunsTileTexts == TextSpec => []RunsTile
<1> QED
  BY TextStart, TextStep, CutTiles, PTL DEF TextSpec

(* Every field with an address, in a text of any length, has a link over   *)
(* all its display text, and no link reaches over a marker or from a field *)
(* to runs it shares no text with.                                         *)
THEOREM FieldsLinkTexts == TextSpec => []FieldsAreLinks
<1>1. FieldInv => FieldsAreLinks
  BY DEF FieldInv
<1> QED
  BY <1>1, TextStart, TextStep, PTL DEF TextSpec

-----------------------------------------------------------------------------
(* The distance from seeds.  The recursive function exists because its     *)
(* values can be written as the ends of paths.                             *)

LEMMA WithinIs ==
    ASSUME NEW S, NEW seeds \in SUBSET S, NEW to \in [S -> SUBSET S]
    PROVE  /\ Within(seeds, to)[0] = {} /\ Within(seeds, to)[1] = seeds
           /\ \A n \in Nat \ {0} : Within(seeds, to)[n + 1] =
                Within(seeds, to)[n] \cup UNION {to[o] : o \in Within(seeds, to)[n]}
           /\ \A n \in Nat : Within(seeds, to)[n] \subseteq S
<1> DEFINE Path(p, k) == /\ p \in [1..k -> S] /\ p[1] \in seeds
                         /\ \A j \in 1..(k - 1) : p[j + 1] \in to[p[j]]
           Ends_(n)  == {o \in S : \E k \in 1..n : \E p \in [1..k -> S] : Path(p, k) /\ p[k] = o}
           f         == [n \in Nat |-> Ends_(n)]
           Is(g)     == g = [n \in Nat |->
                              IF n = 0 THEN {}
                              ELSE IF n = 1 THEN seeds
                              ELSE g[n - 1] \cup UNION {to[o] : o \in g[n - 1]}]
<1>1. Ends_(0) = {}
  OBVIOUS
<1>2. Ends_(1) = seeds
  <2>1. ASSUME NEW o \in seeds PROVE o \in Ends_(1)
    <3> DEFINE p == [j \in 1..1 |-> o]
    <3>1. p \in [1..1 -> S] /\ p[1] = o /\ Path(p, 1)
      OBVIOUS
    <3>2. o \in S /\ 1 \in 1..1
      OBVIOUS
    <3> HIDE DEF p, Path
    <3>3. \E g \in [1..1 -> S] : Path(g, 1) /\ g[1] = o
      BY <3>1
    <3> QED
      BY <3>2, <3>3
  <2>2. ASSUME NEW o \in Ends_(1) PROVE o \in seeds
    OBVIOUS
  <2> QED
    BY <2>1, <2>2
<1>3. ASSUME NEW n \in Nat \ {0}
      PROVE  Ends_(n + 1) = Ends_(n) \cup UNION {to[o] : o \in Ends_(n)}
  <2>1. ASSUME NEW o \in Ends_(n) PROVE o \in Ends_(n + 1)
    <3>1. PICK k \in 1..n : \E p \in [1..k -> S] : Path(p, k) /\ p[k] = o
      OBVIOUS
    <3>2. k \in 1..(n + 1)
      OBVIOUS
    <3> QED
      BY <3>1, <3>2
  <2>2. ASSUME NEW o \in Ends_(n), NEW e \in to[o] PROVE e \in Ends_(n + 1)
    <3>0. PICK k \in 1..n : \E p \in [1..k -> S] : Path(p, k) /\ p[k] = o
      OBVIOUS
    <3>1. PICK p \in [1..k -> S] : Path(p, k) /\ p[k] = o
      BY <3>0
    <3> DEFINE q == [j \in 1..(k + 1) |-> IF j <= k THEN p[j] ELSE e]
    <3>2. o \in S /\ e \in S
      OBVIOUS
    <3>3. q \in [1..(k + 1) -> S] /\ q[k + 1] = e
      BY <3>2
    <3>4. q[1] \in seeds
      BY <3>1
    <3>5. ASSUME NEW j \in 1..k PROVE q[j + 1] \in to[q[j]]
      <4>1. CASE j = k
        BY <3>1, <4>1
      <4>2. CASE j # k
        <5>1. j \in 1..(k - 1) /\ j + 1 \in 1..k
          BY <4>2
        <5> QED
          BY <3>1, <5>1
      <4> QED
        BY <4>1, <4>2
    <3> HIDE DEF q
    <3>6. Path(q, k + 1)
      BY <3>3, <3>4, <3>5
    <3>7. k + 1 \in 1..(n + 1)
      OBVIOUS
    <3> QED
      BY <3>2, <3>3, <3>6, <3>7
  <2>3. ASSUME NEW e \in Ends_(n + 1), e \notin Ends_(n)
        PROVE  \E o \in Ends_(n) : e \in to[o]
    <3>0. PICK k \in 1..(n + 1) : \E q \in [1..k -> S] : Path(q, k) /\ q[k] = e
      OBVIOUS
    <3>1. PICK q \in [1..k -> S] : Path(q, k) /\ q[k] = e
      BY <3>0
    <3>2. k = n + 1
      <4> SUFFICES ASSUME k # n + 1 PROVE FALSE
        OBVIOUS
      <4>1. k \in 1..n
        OBVIOUS
      <4>2. e \in S
        OBVIOUS
      <4> QED
        BY <2>3, <3>1, <4>1, <4>2
    <3> DEFINE p == [j \in 1..n |-> q[j]]
    <3>3. p \in [1..n -> S] /\ n \in 1..n
      BY <3>2
    <3>4. Path(p, n)
      BY <3>1, <3>2, <3>3
    <3>5. p[n] = q[n] /\ q[n + 1] \in to[q[n]]
      BY <3>1, <3>2, <3>3
    <3> HIDE DEF p
    <3>6. p[n] \in Ends_(n)
      BY <3>3, <3>4
    <3> QED
      BY <3>1, <3>2, <3>5, <3>6
  <2> HIDE DEF Ends_
  <2> QED
    BY <2>1, <2>2, <2>3
<1> HIDE DEF Path
<1>4. \A n \in Nat : f[n] = Ends_(n) /\ Ends_(n) \subseteq S
  OBVIOUS
<1> HIDE DEF Ends_
<1>5. Is(f)
  <2>1. ASSUME NEW n \in Nat
        PROVE  f[n] = IF n = 0 THEN {}
                      ELSE IF n = 1 THEN seeds
                      ELSE f[n - 1] \cup UNION {to[o] : o \in f[n - 1]}
    <3>1. CASE n = 0
      BY <1>1, <1>4, <3>1
    <3>2. CASE n = 1
      BY <1>2, <1>4, <3>2
    <3>3. CASE n # 0 /\ n # 1
      <4>1. n - 1 \in Nat \ {0} /\ (n - 1) + 1 = n
        BY <3>3
      <4>2. Ends_(n) = Ends_(n - 1) \cup UNION {to[o] : o \in Ends_(n - 1)}
        BY <1>3, <4>1
      <4>3. f[n] = Ends_(n) /\ f[n - 1] = Ends_(n - 1)
        BY <1>4, <4>1
      <4> QED
        BY <3>3, <4>2, <4>3
    <3> QED
      BY <3>1, <3>2, <3>3
  <2>2. f = [n \in Nat |-> f[n]]
    BY <1>4
  <2> HIDE DEF f
  <2> QED
    BY <2>1, <2>2
<1>6. Within(seeds, to) = CHOOSE g : Is(g)
  BY DEF Within
<1> DEFINE W == Within(seeds, to)
<1>7. Is(W)
  <2> HIDE DEF Is, f
  <2> QED
    BY <1>5, <1>6
<1> HIDE DEF W
<1>8. \A n \in Nat : W[n] = IF n = 0 THEN {}
                            ELSE IF n = 1 THEN seeds
                            ELSE W[n - 1] \cup UNION {to[o] : o \in W[n - 1]}
  BY <1>7
<1>9. W[0] = {} /\ W[1] = seeds
  <2>1. 0 \in Nat /\ 1 \in Nat /\ 1 # 0
    OBVIOUS
  <2>2. W[0] = {}
    BY <1>8, <2>1
  <2>3. W[1] = seeds
    BY <1>8, <2>1
  <2> QED
    BY <2>2, <2>3
<1>10. ASSUME NEW n \in Nat \ {0} PROVE W[n + 1] = W[n] \cup UNION {to[o] : o \in W[n]}
  <2>1. n + 1 \in Nat /\ n + 1 # 0 /\ n + 1 # 1 /\ (n + 1) - 1 = n
    OBVIOUS
  <2> QED
    BY <1>8, <2>1
<1>11. \A n \in Nat : W[n] \subseteq S
  <2> DEFINE Bad == {n \in Nat : ~(W[n] \subseteq S)}
  <2> SUFFICES ASSUME Bad # {} PROVE FALSE
    OBVIOUS
  <2>1. PICK n \in Bad : \A m \in Bad : n <= m
    <3>1. Bad \subseteq Nat
      OBVIOUS
    <3> HIDE DEF Bad
    <3> QED
      BY <3>1, LeastNatural
  <2>2. n # 0 /\ n # 1
    BY <1>9
  <2>3. n - 1 \in Nat \ {0} /\ n - 1 \notin Bad /\ (n - 1) + 1 = n
    BY <2>1, <2>2
  <2>4. W[n - 1] \subseteq S
    BY <2>3
  <2>5. W[n] = W[n - 1] \cup UNION {to[o] : o \in W[n - 1]}
    BY <1>10, <2>3
  <2> QED
    BY <2>4, <2>5
<1> QED
  BY <1>9, <1>10, <1>11 DEF W

LEMMA WithinGrows ==
    ASSUME NEW S, NEW seeds \in SUBSET S, NEW to \in [S -> SUBSET S],
           NEW m \in Nat, NEW n \in Nat, m <= n
    PROVE  Within(seeds, to)[m] \subseteq Within(seeds, to)[n]
<1> DEFINE W   == Within(seeds, to)
           Bad == {k \in Nat : m <= k /\ ~(W[m] \subseteq W[k])}
<1> SUFFICES ASSUME Bad # {} PROVE FALSE
  BY DEF W
<1>0. /\ W[0] = {} /\ W[1] = seeds
      /\ \A k \in Nat \ {0} : W[k + 1] = W[k] \cup UNION {to[o] : o \in W[k]}
      /\ \A k \in Nat : W[k] \subseteq S
  BY WithinIs
<1> HIDE DEF W
<1>1. PICK k \in Bad : \A j \in Bad : k <= j
  <2>1. Bad \subseteq Nat
    OBVIOUS
  <2> HIDE DEF Bad
  <2> QED
    BY <2>1, LeastNatural
<1>2. k # m /\ k - 1 \in Nat /\ m <= k - 1
  OBVIOUS
<1>3. W[m] \subseteq W[k - 1]
  BY <1>1, <1>2
<1>4. W[k - 1] \subseteq W[k]
  <2>1. CASE k - 1 = 0
    BY <1>0, <2>1
  <2>2. CASE k - 1 # 0
    <3>1. k - 1 \in Nat \ {0} /\ (k - 1) + 1 = k
      BY <1>2, <2>2
    <3>2. W[(k - 1) + 1] = W[k - 1] \cup UNION {to[o] : o \in W[k - 1]}
      BY <1>0, <3>1
    <3> QED
      BY <3>1, <3>2
  <2> QED
    BY <2>1, <2>2
<1> QED
  BY <1>3, <1>4

LEMMA WithinClosed ==
    ASSUME NEW S, NEW seeds \in SUBSET S, NEW to \in [S -> SUBSET S],
           NEW C, seeds \subseteq C, \A o \in C \cap S : to[o] \subseteq C, NEW n \in Nat
    PROVE  Within(seeds, to)[n] \subseteq C
<1> DEFINE W   == Within(seeds, to)
           Bad == {k \in Nat : ~(W[k] \subseteq C)}
<1> SUFFICES ASSUME Bad # {} PROVE FALSE
  BY DEF W
<1>0. /\ W[0] = {} /\ W[1] = seeds
      /\ \A k \in Nat \ {0} : W[k + 1] = W[k] \cup UNION {to[o] : o \in W[k]}
      /\ \A k \in Nat : W[k] \subseteq S
  BY WithinIs
<1> HIDE DEF W
<1>1. PICK k \in Bad : \A j \in Bad : k <= j
  <2>1. Bad \subseteq Nat
    OBVIOUS
  <2> HIDE DEF Bad
  <2> QED
    BY <2>1, LeastNatural
<1>2. k # 0 /\ k # 1
  BY <1>0
<1>3. k - 1 \in Nat \ {0} /\ (k - 1) + 1 = k /\ k - 1 \notin Bad
  BY <1>1, <1>2
<1>4. W[k] = W[k - 1] \cup UNION {to[o] : o \in W[k - 1]} /\ W[k - 1] \subseteq S
  <2>1. W[(k - 1) + 1] = W[k - 1] \cup UNION {to[o] : o \in W[k - 1]}
    BY <1>0, <1>3
  <2> QED
    BY <1>0, <1>3, <2>1
<1> QED
  BY <1>1, <1>3, <1>4

-----------------------------------------------------------------------------
(* The walk over a graph.  The queue has the objects to come in layers:    *)
(* behind those at one distance only such at the next.  Everything nearer  *)
(* than its head is visited, everything as near is visited or queued, and  *)
(* so is all that visited objects refer to, until the bound on the depth   *)
(* is reached.                                                             *)

WalkTypes ==
    /\ kind \in Kinds
    /\ refs \in [Objects -> Seq(Objects)]
    /\ payload \in [Objects -> Nat]
    /\ queue \in Seq(Objects \X Nat)
    /\ visited \subseteq Objects
    /\ Top \in indexed
    /\ max_depth \in Nat \ {0} /\ Top \in Objects /\ NoObject \notin Objects

Begun == ~Local /\ (kind = "guids" => hasIndex)

\* The distance of the next object, beyond all others at the end.
Depth(q) == IF q = <<>> THEN max_depth + 1 ELSE q[1][2]

Layered(W, q, seen) ==
    /\ \A i \in 1..Len(q) : q[i][2] \in 1..max_depth /\ q[i][1] \in W[q[i][2]]
    /\ \A i, j \in 1..Len(q) : i <= j => q[i][2] <= q[j][2] /\ q[j][2] <= q[i][2] + 1
    /\ seen \subseteq W[max_depth]

IsQueued(q, o) == \E i \in 1..Len(q) : q[i][1] = o
QueuedAt(q, o, d) == \E i \in 1..Len(q) : q[i][1] = o /\ q[i][2] = d

Complete(W, to, q, seen) ==
    /\ W[Depth(q) - 1] \subseteq seen
    /\ Depth(q) <= max_depth =>
         \A o \in W[Depth(q)] : o \in seen \/ QueuedAt(q, o, Depth(q))
    /\ Depth(q) < max_depth =>
         \A o \in seen : \A e \in to[o] : e \in seen \/ IsQueued(q, e)

LEMMA PairParts ==
    ASSUME NEW q \in Seq(Objects \X Nat), NEW i \in 1..Len(q)
    PROVE  q[i][1] \in Objects /\ q[i][2] \in Nat
<1>1. q[i] \in Objects \X Nat
  OBVIOUS
<1> QED
  BY <1>1

(* One turn of a walk: the head of the queue is taken off and seen, and    *)
(* what it refers to may be put at the end.                                *)
LEMMA TurnQueue ==
    ASSUME NEW q \in Seq(Objects \X Nat), q # <<>>,
           NEW new \in Seq(Objects), NEW d \in Nat
    PROVE  LET r == Tail(q) \o At(new, d) IN
           /\ r \in Seq(Objects \X Nat)
           /\ Len(q) \in Nat \ {0} /\ Len(new) \in Nat
           /\ Len(r) = Len(q) - 1 + Len(new)
           /\ \A i \in 1..(Len(q) - 1) : r[i] = q[i + 1]
           /\ \A i \in 1..Len(new) : r[Len(q) - 1 + i] = <<new[i], d>>
<1> DEFINE t == Tail(q)
           a == At(new, d)
<1>1. /\ t \in Seq(Objects \X Nat) /\ Len(t) = Len(q) - 1 /\ Len(q) \in Nat \ {0}
      /\ \A i \in 1..Len(t) : t[i] = q[i + 1]
  OBVIOUS
<1>2. Len(new) \in Nat /\ a = [i \in 1..Len(new) |-> <<new[i], d>>]
  BY DEF At
<1>3. a \in Seq(Objects \X Nat) /\ Len(a) = Len(new)
  <2>1. \A i \in 1..Len(new) : <<new[i], d>> \in Objects \X Nat
    OBVIOUS
  <2>2. a \in [1..Len(new) -> Objects \X Nat]
    BY <1>2, <2>1
  <2> HIDE DEF a
  <2> QED
    BY <1>2, <2>2
<1> HIDE DEF t, a
<1>4. /\ t \o a \in Seq(Objects \X Nat) /\ Len(t \o a) = Len(t) + Len(a)
      /\ \A i \in 1..Len(t) : (t \o a)[i] = t[i]
      /\ \A i \in 1..Len(a) : (t \o a)[Len(t) + i] = a[i]
  <2>1. /\ t \o a \in Seq(Objects \X Nat) /\ Len(t \o a) = Len(t) + Len(a)
        /\ \A i \in 1..(Len(t) + Len(a)) :
             (t \o a)[i] = IF i <= Len(t) THEN t[i] ELSE a[i - Len(t)]
    BY <1>1, <1>3, ConcatProperties
  <2>2. Len(t) \in Nat /\ Len(a) \in Nat
    BY <1>1, <1>3
  <2> QED
    BY <2>1, <2>2
<1>5. \A i \in 1..Len(new) : a[i] = <<new[i], d>>
  BY <1>2
<1> QED
  BY <1>1, <1>2, <1>3, <1>4, <1>5 DEF t, a

LEMMA TurnLayers ==
    ASSUME NEW seeds \in SUBSET Objects, NEW to \in [Objects -> SUBSET Objects],
           NEW W, W = Within(seeds, to), max_depth \in Nat \ {0},
           NEW q \in Seq(Objects \X Nat), q # <<>>, NEW seen \in SUBSET Objects,
           Layered(W, q, seen), Complete(W, to, q, seen),
           NEW new \in Seq(Objects), new # <<>> => q[1][2] < max_depth,
           \A j \in 1..Len(new) : new[j] \in to[q[1][1]],
           q[1][2] < max_depth /\ q[1][1] \notin seen =>
               \A e \in to[q[1][1]] : e \in seen \cup {q[1][1]} \/ \E j \in 1..Len(new) : new[j] = e
    PROVE  LET r == Tail(q) \o At(new, q[1][2] + 1) IN
           Layered(W, r, seen \cup {q[1][1]}) /\ Complete(W, to, r, seen \cup {q[1][1]})
<1> DEFINE o == q[1][1]
           d == q[1][2]
           r == Tail(q) \o At(new, d + 1)
           seen2 == seen \cup {o}
           n == Len(q) - 1
<1>1. 1 \in 1..Len(q) /\ o \in Objects /\ d \in Nat
  <2>1. 1 \in 1..Len(q)
    OBVIOUS
  <2> QED
    BY <2>1, PairParts
<1>2. d \in 1..max_depth /\ o \in W[d]
  BY <1>1 DEF Layered
<1>3. /\ r \in Seq(Objects \X Nat) /\ n \in Nat /\ Len(q) = n + 1 /\ Len(new) \in Nat
      /\ Len(r) = n + Len(new)
      /\ \A i \in 1..n : r[i] = q[i + 1]
      /\ \A i \in 1..Len(new) : r[n + i] = <<new[i], d + 1>>
  <2>1. d + 1 \in Nat
    BY <1>1
  <2> HIDE DEF d
  <2>2. /\ r \in Seq(Objects \X Nat)
        /\ Len(q) \in Nat \ {0} /\ Len(new) \in Nat
        /\ Len(r) = Len(q) - 1 + Len(new)
        /\ \A i \in 1..(Len(q) - 1) : r[i] = q[i + 1]
        /\ \A i \in 1..Len(new) : r[Len(q) - 1 + i] = <<new[i], d + 1>>
    BY <2>1, TurnQueue
  <2> HIDE DEF r
  <2> QED
    BY <2>2
<1>4. /\ W[0] = {} /\ W[1] = seeds
      /\ \A k \in Nat \ {0} : W[k + 1] = W[k] \cup UNION {to[x] : x \in W[k]}
      /\ \A k \in Nat : W[k] \subseteq Objects
  <2> DEFINE V == Within(seeds, to)
  <2>1. /\ V[0] = {} /\ V[1] = seeds
        /\ \A k \in Nat \ {0} : V[k + 1] = V[k] \cup UNION {to[x] : x \in V[k]}
        /\ \A k \in Nat : V[k] \subseteq Objects
    BY WithinIs
  <2>2. V = W
    OBVIOUS
  <2> HIDE DEF V
  <2> QED
    BY <2>1, <2>2
<1>5. /\ \A i \in 1..(n + 1) : q[i][2] \in 1..max_depth /\ q[i][1] \in W[q[i][2]]
      /\ \A i, j \in 1..(n + 1) : i <= j => q[i][2] <= q[j][2] /\ q[j][2] <= q[i][2] + 1
      /\ seen \subseteq W[max_depth]
  BY <1>3 DEF Layered
<1>6. \A i \in 1..(n + 1) : q[i][2] = d \/ q[i][2] = d + 1
  <2> TAKE i \in 1..(n + 1)
  <2>1. d <= q[i][2] /\ q[i][2] <= d + 1 /\ q[i][2] \in Nat /\ d \in Nat
    <3>1. 1 \in 1..(n + 1) /\ 1 <= i
      BY <1>1, <1>3
    <3> QED
      BY <1>2, <1>5, <3>1
  <2> HIDE DEF d
  <2> QED
    BY <2>1
<1> HIDE DEF o, d, r, n
<1>7. \A j \in 1..Len(new) : new[j] \in to[o] /\ d < max_depth /\ new[j] \in W[d + 1]
  <2> TAKE j \in 1..Len(new)
  <2>1. new[j] \in to[o] /\ new # <<>>
    BY <1>3 DEF o
  <2>2. d < max_depth
    BY <2>1 DEF d
  <2>3. W[d + 1] = W[d] \cup UNION {to[x] : x \in W[d]}
    BY <1>2, <1>4
  <2> QED
    BY <1>2, <2>1, <2>2, <2>3
<1>8. ASSUME NEW i \in 1..Len(r)
      PROVE  \/ i \in 1..n /\ r[i] = q[i + 1] /\ i + 1 \in 1..(n + 1)
             \/ i \notin 1..n /\ \E j \in 1..Len(new) : i = n + j /\ r[i] = <<new[j], d + 1>>
  <2>1. CASE i \in 1..n
    <3>1. r[i] = q[i + 1]
      BY <1>3, <2>1
    <3>2. i + 1 \in 1..(n + 1)
      BY <1>3, <2>1
    <3> QED
      BY <2>1, <3>1, <3>2
  <2>2. CASE i \notin 1..n
    <3>1. i - n \in 1..Len(new) /\ n + (i - n) = i
      BY <1>3, <2>2
    <3> QED
      BY <1>3, <2>2, <3>1
  <2> QED
    BY <2>1, <2>2
<1>9. \A i \in 1..Len(r) : r[i][2] \in {d, d + 1} /\ (r[i][2] # d + 1 => i \in 1..n)
  <2> TAKE i \in 1..Len(r)
  <2>1. CASE i \in 1..n /\ r[i] = q[i + 1] /\ i + 1 \in 1..(n + 1)
    BY <1>6, <2>1
  <2>2. CASE \E j \in 1..Len(new) : i = n + j /\ r[i] = <<new[j], d + 1>>
    BY <2>2
  <2> QED
    BY <1>8, <2>1, <2>2
<1>10. Layered(W, r, seen2)
  <2>1. ASSUME NEW i \in 1..Len(r) PROVE r[i][2] \in 1..max_depth /\ r[i][1] \in W[r[i][2]]
    <3>1. CASE i \in 1..n /\ r[i] = q[i + 1] /\ i + 1 \in 1..(n + 1)
      BY <1>5, <3>1
    <3>2. CASE \E j \in 1..Len(new) : i = n + j /\ r[i] = <<new[j], d + 1>>
      <4>1. PICK j \in 1..Len(new) : r[i] = <<new[j], d + 1>>
        BY <3>2
      <4>2. d + 1 \in 1..max_depth /\ new[j] \in W[d + 1]
        BY <1>2, <1>7
      <4> QED
        BY <4>1, <4>2
    <3> QED
      BY <1>8, <3>1, <3>2
  <2>2. ASSUME NEW i \in 1..Len(r), NEW j \in 1..Len(r), i <= j
        PROVE  r[i][2] <= r[j][2] /\ r[j][2] <= r[i][2] + 1
    <3>1. CASE r[i][2] = d + 1 /\ r[j][2] = d
      <4>1. j \in 1..n /\ i \in 1..n
        <5>1. d # d + 1
          BY <1>2
        <5>2. j \in 1..n
          BY <1>9, <3>1, <5>1
        <5> QED
          BY <1>3, <2>2, <5>2
      <4>2. r[i] = q[i + 1] /\ r[j] = q[j + 1] /\ i + 1 \in 1..(n + 1) /\ j + 1 \in 1..(n + 1)
            /\ i + 1 <= j + 1
        BY <1>3, <2>2, <4>1
      <4>3. q[i + 1][2] <= q[j + 1][2]
        BY <1>5, <4>2
      <4> QED
        BY <1>2, <3>1, <4>2, <4>3
    <3>2. CASE ~(r[i][2] = d + 1 /\ r[j][2] = d)
      <4>1. r[i][2] \in {d, d + 1} /\ r[j][2] \in {d, d + 1} /\ d \in Nat
        BY <1>2, <1>9
      <4> HIDE DEF d
      <4> QED
        BY <3>2, <4>1
    <3> QED
      BY <3>1, <3>2
  <2>3. seen2 \subseteq W[max_depth]
    <3>1. W[d] \subseteq W[max_depth]
      <4>1. d \in Nat /\ max_depth \in Nat /\ d <= max_depth
        BY <1>2
      <4>2. Within(seeds, to)[d] \subseteq Within(seeds, to)[max_depth]
        BY <4>1, WithinGrows
      <4> QED
        BY <4>2
    <3> QED
      BY <1>2, <1>5, <3>1
  <2> QED
    BY <2>1, <2>2, <2>3 DEF Layered
<1>11. \A x \in W[d] : x \in seen2 \/ QueuedAt(r, x, d)
  <2> TAKE x \in W[d]
  <2>1. x \in seen \/ QueuedAt(q, x, d)
    <3>1. Depth(q) = d
      BY DEF Depth, d
    <3> QED
      BY <1>2, <3>1 DEF Complete
  <2>2. CASE QueuedAt(q, x, d)
    <3>1. PICK i \in 1..(n + 1) : q[i][1] = x /\ q[i][2] = d
      BY <1>3, <2>2 DEF QueuedAt
    <3>2. CASE i = 1
      BY <3>1, <3>2 DEF o
    <3>3. CASE i # 1
      <4>1. i - 1 \in 1..n /\ (i - 1) + 1 = i /\ i - 1 \in 1..Len(r)
        BY <1>3, <3>3
      <4>2. r[i - 1] = q[i]
        BY <1>3, <4>1
      <4> QED
        BY <3>1, <4>1, <4>2 DEF QueuedAt
    <3> QED
      BY <3>2, <3>3
  <2> QED
    BY <2>1, <2>2
<1>12. ASSUME d < max_depth, NEW x \in seen2, NEW e \in to[x]
       PROVE  e \in seen2 \/ IsQueued(r, e)
  <2>1. CASE x \in seen
    <3>1. e \in seen \/ IsQueued(q, e)
      <4>1. Depth(q) = d
        BY DEF Depth, d
      <4> QED
        BY <1>12, <2>1, <4>1 DEF Complete
    <3>2. CASE IsQueued(q, e)
      <4>1. PICK i \in 1..(n + 1) : q[i][1] = e
        BY <1>3, <3>2 DEF IsQueued
      <4>2. CASE i = 1
        BY <4>1, <4>2 DEF o
      <4>3. CASE i # 1
        <5>1. i - 1 \in 1..n /\ (i - 1) + 1 = i /\ i - 1 \in 1..Len(r)
          BY <1>3, <4>3
        <5>2. r[i - 1] = q[i]
          BY <1>3, <5>1
        <5> QED
          BY <4>1, <5>1, <5>2 DEF IsQueued
      <4> QED
        BY <4>2, <4>3
    <3> QED
      BY <3>1, <3>2
  <2>2. CASE x \notin seen
    <3>1. x = o /\ o \notin seen
      BY <2>2
    <3>2. e \in seen2 \/ \E j \in 1..Len(new) : new[j] = e
      BY <1>12, <3>1 DEF o, d
    <3>3. CASE \E j \in 1..Len(new) : new[j] = e
      <4>1. PICK j \in 1..Len(new) : new[j] = e
        BY <3>3
      <4>2. n + j \in 1..Len(r) /\ r[n + j][1] = e
        BY <1>3, <4>1
      <4> QED
        BY <4>2 DEF IsQueued
    <3> QED
      BY <3>2, <3>3
  <2> QED
    BY <2>1, <2>2
<1>13. Complete(W, to, r, seen2)
  <2> HIDE DEF seen2
  <2>1. CASE r # <<>> /\ r[1][2] = d
    <3>1. Depth(r) = d /\ Depth(q) = d
      BY <2>1 DEF Depth, d
    <3>2. W[d - 1] \subseteq seen2
      BY <3>1 DEF Complete, seen2
    <3> QED
      BY <1>11, <1>12, <3>1, <3>2 DEF Complete
  <2>2. CASE r # <<>> /\ r[1][2] # d
    <3>1. 1 \in 1..Len(r)
      BY <1>3, <2>2
    <3>2. r[1][2] = d + 1 /\ Depth(r) = d + 1 /\ d < max_depth
      <4>1. r[1][2] = d + 1 /\ r[1][2] \in 1..max_depth
        BY <1>9, <1>10, <2>2, <3>1 DEF Layered
      <4> QED
        BY <1>2, <2>2, <4>1 DEF Depth
    <3>3. \A i \in 1..Len(r) : r[i][2] = d + 1
      <4> TAKE i \in 1..Len(r)
      <4>1. r[1][2] <= r[i][2] /\ r[i][2] \in {d, d + 1}
        BY <1>9, <1>10, <3>1 DEF Layered
      <4> QED
        BY <1>2, <3>2, <4>1
    <3>4. W[d] \subseteq seen2
      <4>1. d # d + 1
        BY <1>2
      <4> QED
        BY <1>11, <3>3, <4>1 DEF QueuedAt
    <3>5. (d + 1) - 1 = d /\ d \in Nat \ {0}
      BY <1>2
    <3>6. \A e \in W[d + 1] : e \in seen2 \/ QueuedAt(r, e, d + 1)
      <4> TAKE e \in W[d + 1]
      <4>1. e \in W[d] \/ \E x \in W[d] : e \in to[x]
        BY <1>4, <3>5
      <4>2. CASE \E x \in W[d] : e \in to[x]
        <5>1. e \in seen2 \/ IsQueued(r, e)
          BY <1>12, <3>2, <3>4, <4>2
        <5> QED
          BY <3>3, <5>1 DEF IsQueued, QueuedAt
      <4> QED
        BY <3>4, <4>1, <4>2
    <3> QED
      BY <1>12, <3>2, <3>4, <3>5, <3>6 DEF Complete
  <2>3. CASE r = <<>>
    <3>1. Len(r) = 0 /\ Depth(r) = max_depth + 1
      BY <2>3 DEF Depth
    <3>2. W[d] \subseteq seen2
      BY <1>11, <3>1 DEF QueuedAt
    <3>3. W[max_depth] \subseteq seen2
      <4>1. CASE d = max_depth
        BY <3>2, <4>1
      <4>2. CASE d # max_depth
        <5>1. d < max_depth
          BY <1>2, <4>2
        <5>2. \A x \in seen2 \cap Objects : to[x] \subseteq seen2
          BY <1>12, <3>1, <5>1 DEF IsQueued
        <5>3. W[1] \subseteq W[d]
          <6>1. 1 \in Nat /\ d \in Nat /\ 1 <= d
            BY <1>2
          <6>2. Within(seeds, to)[1] \subseteq Within(seeds, to)[d]
            BY <6>1, WithinGrows
          <6> QED
            BY <6>2
        <5>4. seeds \subseteq seen2
          BY <1>4, <3>2, <5>3
        <5>5. Within(seeds, to)[max_depth] \subseteq seen2
          BY <5>2, <5>4, WithinClosed
        <5> QED
          BY <5>5
      <4> QED
        BY <4>1, <4>2
    <3>4. Depth(r) - 1 = max_depth /\ ~(Depth(r) <= max_depth) /\ ~(Depth(r) < max_depth)
      BY <3>1
    <3> QED
      BY <3>3, <3>4 DEF Complete
  <2> QED
    BY <2>1, <2>2, <2>3
<1> QED
  BY <1>10, <1>13 DEF o, d, r

-----------------------------------------------------------------------------
(* The inductive invariant of the walks: the layers, and in the result     *)
(* what was visited so far, all of it or the largest.                      *)

Succ == [o \in Objects |-> Range(RefsOf(o))]
Carriers == {o \in visited \cap indexed : payload[o] > 0}

Results ==
    /\ kind # "picture" => found = Carriers /\ largest = NoObject
    /\ kind = "picture" =>
         /\ found = {}
         /\ largest = NoObject => Carriers = {}
         /\ largest # NoObject =>
              largest \in Carriers /\ \A o \in Carriers : payload[o] <= payload[largest]

Layers == Layered(Distance, queue, visited) /\ Complete(Distance, Succ, queue, visited)

WalkInv ==
    /\ WalkTypes
    /\ walking => Begun
    /\ Begun => Layers /\ Results

LEMMA GraphParts ==
    ASSUME WalkTypes
    PROVE  /\ Seeds \in Seq(Objects) /\ Range(Seeds) \in SUBSET Objects
           /\ \A o \in Objects : RefsOf(o) \in Seq(Objects)
           /\ Succ \in [Objects -> SUBSET Objects]
           /\ Distance = Within(Range(Seeds), Succ)
<1>1. \A s \in Seq(Objects) : Range(s) \in SUBSET Objects
  BY DEF Range
<1>2. Seeds \in Seq(Objects)
  <2>1. refs[Top] \in Seq(Objects)
    BY DEF WalkTypes
  <2>2. refs[Top] # <<>> => <<Head(refs[Top])>> \in Seq(Objects)
    BY <2>1
  <2> QED
    BY <2>1, <2>2 DEF Seeds
<1>3. \A o \in Objects : RefsOf(o) \in Seq(Objects)
  BY DEF WalkTypes, RefsOf
<1>4. Succ \in [Objects -> SUBSET Objects]
  BY <1>1, <1>3 DEF Succ
<1>5. Distance = Within(Range(Seeds), Succ)
  BY DEF Distance, Succ
<1> QED
  BY <1>1, <1>2, <1>3, <1>4, <1>5

LEMMA GraphKept ==
    ASSUME UNCHANGED graph
    PROVE  /\ Distance' = Distance /\ Succ' = Succ
           /\ Begun' = Begun /\ Local' = Local
<1>0. UNCHANGED <<kind, hasIndex, indexed, refs, payload>>
  BY DEF graph
<1>1. Succ' = Succ
  BY <1>0 DEF Succ, RefsOf
<1>2. Seeds' = Seeds
  BY <1>0 DEF Seeds
<1>3. Distance = Within(Range(Seeds), Succ)
  BY DEF Distance, Succ
<1>4. Distance' = Within(Range(Seeds), Succ)'
  BY DEF Distance, Succ
<1>5. Within(Range(Seeds), Succ)' = Within(Range(Seeds'), Succ')
  OBVIOUS
<1>6. Local' = Local
  BY <1>0 DEF Local
<1>7. Begun' = Begun
  BY <1>0, <1>6 DEF Begun
<1> QED
  BY <1>1, <1>2, <1>3, <1>4, <1>5, <1>6, <1>7

LEMMA WalkTurn ==
    ASSUME WalkTypes, Layers, queue # <<>>, NEW new \in Seq(Objects),
           new # <<>> => depth < max_depth,
           \A j \in 1..Len(new) : new[j] \in Range(RefsOf(object)),
           depth < max_depth /\ object \notin visited =>
               \A e \in Range(RefsOf(object)) :
                   e \in visited \cup {object} \/ \E j \in 1..Len(new) : new[j] = e,
           queue' = Tail(queue) \o At(new, depth + 1),
           visited' = visited \cup {object}, UNCHANGED graph
    PROVE  WalkTypes' /\ Layers'
<1> DEFINE q == queue
           seen == visited
<1>1. /\ q \in Seq(Objects \X Nat) /\ seen \in SUBSET Objects /\ max_depth \in Nat \ {0}
      /\ Head(q) = q[1] /\ 1 \in 1..Len(q)
  <2>1. q \in Seq(Objects \X Nat) /\ seen \in SUBSET Objects /\ max_depth \in Nat \ {0}
    BY DEF WalkTypes
  <2>2. q # <<>>
    OBVIOUS
  <2> HIDE DEF q
  <2>3. Head(q) = q[1]
    BY <2>1, <2>2
  <2>4. Len(q) \in Nat /\ Len(q) # 0
    BY <2>1, <2>2, LenProperties
  <2>5. 1 \in 1..Len(q)
    BY <2>4
  <2> QED
    BY <2>1, <2>3, <2>5
<1>2. object = q[1][1] /\ depth = q[1][2] /\ q[1][1] \in Objects /\ q[1][2] \in Nat
  BY <1>1, PairParts DEF object, depth
<1>3. Succ \in [Objects -> SUBSET Objects] /\ Range(Seeds) \in SUBSET Objects
      /\ Distance = Within(Range(Seeds), Succ)
  BY GraphParts
<1>4. Succ[object] = Range(RefsOf(object))
  BY <1>2 DEF Succ
<1>5. /\ Layered(Distance, Tail(q) \o At(new, q[1][2] + 1), seen \cup {q[1][1]})
      /\ Complete(Distance, Succ, Tail(q) \o At(new, q[1][2] + 1), seen \cup {q[1][1]})
  <2>1. \A j \in 1..Len(new) : new[j] \in Succ[q[1][1]]
    BY <1>2, <1>4
  <2>2. q[1][2] < max_depth /\ q[1][1] \notin seen =>
               \A e \in Succ[q[1][1]] : e \in seen \cup {q[1][1]} \/ \E j \in 1..Len(new) : new[j] = e
    BY <1>2, <1>4
  <2>3. Layered(Distance, q, seen) /\ Complete(Distance, Succ, q, seen)
    BY DEF Layers
  <2>4. new # <<>> => q[1][2] < max_depth
    BY <1>2
  <2>5. PICK W : W = Distance
    OBVIOUS
  <2>6. PICK to : to = Succ
    OBVIOUS
  <2>7. PICK seeds : seeds = Range(Seeds)
    OBVIOUS
  <2> HIDE DEF q, seen
  <2>8. q # <<>>
    BY DEF q
  <2>9. /\ Layered(W, Tail(q) \o At(new, q[1][2] + 1), seen \cup {q[1][1]})
        /\ Complete(W, to, Tail(q) \o At(new, q[1][2] + 1), seen \cup {q[1][1]})
    <3>1. /\ seeds \in SUBSET Objects /\ to \in [Objects -> SUBSET Objects]
          /\ W = Within(seeds, to) /\ Layered(W, q, seen) /\ Complete(W, to, q, seen)
          /\ \A j \in 1..Len(new) : new[j] \in to[q[1][1]]
          /\ q[1][2] < max_depth /\ q[1][1] \notin seen =>
               \A e \in to[q[1][1]] : e \in seen \cup {q[1][1]} \/ \E j \in 1..Len(new) : new[j] = e
      BY <1>3, <2>1, <2>2, <2>3, <2>5, <2>6, <2>7
    <3> QED
      BY <1>1, <2>4, <2>8, <3>1, TurnLayers
  <2> QED
    BY <2>5, <2>6, <2>9
<1>6. Layered(Distance, queue', visited') /\ Complete(Distance, Succ, queue', visited')
  BY <1>2, <1>5
<1>7. Layers'
  <2>1. Distance' = Distance /\ Succ' = Succ
    BY GraphKept
  <2>2. Layers' = (Layered(Distance, queue, visited)' /\ Complete(Distance, Succ, queue, visited)')
    BY DEF Layers
  <2>3. Layered(Distance, queue, visited)' <=> Layered(Distance', queue', visited')
    BY DEF Layered
  <2>4. Complete(Distance, Succ, queue, visited)' <=> Complete(Distance', Succ', queue', visited')
    BY DEF Complete, Depth, IsQueued, QueuedAt
  <2> QED
    BY <1>6, <2>1, <2>2, <2>3, <2>4
<1>8. queue' \in Seq(Objects \X Nat)
  <2>1. depth + 1 \in Nat
    BY <1>2
  <2> QED
    BY <1>1, <2>1, TurnQueue
<1>9. WalkTypes'
  <2>1. visited' \subseteq Objects
    BY <1>1, <1>2
  <2> QED
    BY <1>8, <2>1 DEF WalkTypes, graph
<1> QED
  BY <1>7, <1>9

-----------------------------------------------------------------------------
(* The loop over the references: the recursive function exists for every   *)
(* prefix, and what it keeps are the references not seen.                  *)

LEMMA UnvisitedIs ==
    ASSUME NEW S, NEW s \in Seq(S), NEW seen
    PROVE  /\ Unvisited(s, seen) \in Seq(S)
           /\ \A j \in 1..Len(Unvisited(s, seen)) : Unvisited(s, seen)[j] \in Range(s) \ seen
           /\ \A e \in Range(s) \ seen : \E j \in 1..Len(Unvisited(s, seen)) : Unvisited(s, seen)[j] = e
<1> DEFINE Is(g, n) == g = [i \in 0..n |->
                         IF i = 0 THEN <<>>
                         ELSE IF s[i] \in seen THEN g[i - 1] ELSE Append(g[i - 1], s[i])]
           Bad == {n \in Nat : ~ \E g : Is(g, n)}
<1>1. \A n \in Nat : \E g : Is(g, n)
  <2> SUFFICES ASSUME Bad # {} PROVE FALSE
    OBVIOUS
  <2>1. PICK n \in Bad : \A m \in Bad : n <= m
    <3>1. Bad \subseteq Nat
      OBVIOUS
    <3> HIDE DEF Bad
    <3> QED
      BY <3>1, LeastNatural
  <2>2. n # 0
    <3> SUFFICES ASSUME n = 0 PROVE FALSE
      OBVIOUS
    <3> DEFINE h == [i \in 0..0 |-> <<>>]
    <3>1. h = [i \in 0..0 |-> IF i = 0 THEN <<>>
                              ELSE IF s[i] \in seen THEN h[i - 1] ELSE Append(h[i - 1], s[i])]
      OBVIOUS
    <3> HIDE DEF h
    <3>2. Is(h, n)
      BY <3>1
    <3> HIDE DEF Is
    <3> QED
      BY <3>2
  <2>3. n - 1 \in Nat /\ n - 1 \notin Bad
    <3>1. n \in Nat /\ n - 1 \in Nat /\ n - 1 < n
      BY <2>2
    <3> HIDE DEF Bad
    <3> QED
      BY <2>1, <3>1
  <2>4. PICK g : Is(g, n - 1)
    BY <2>3
  <2> DEFINE h == [i \in 0..n |-> IF i < n THEN g[i]
                                  ELSE IF s[n] \in seen THEN g[n - 1] ELSE Append(g[n - 1], s[n])]
  <2>5. ASSUME NEW i \in 0..n
        PROVE  h[i] = IF i = 0 THEN <<>>
                      ELSE IF s[i] \in seen THEN h[i - 1] ELSE Append(h[i - 1], s[i])
    <3>1. CASE i = n
      <4>1. h[i - 1] = g[n - 1]
        BY <2>3, <3>1
      <4> QED
        BY <2>2, <3>1, <4>1
    <3>2. CASE i # n
      <4>1. i \in 0..(n - 1) /\ h[i] = g[i]
        BY <3>2
      <4>2. i # 0 => h[i - 1] = g[i - 1]
        BY <4>1
      <4>3. g[i] = IF i = 0 THEN <<>>
                   ELSE IF s[i] \in seen THEN g[i - 1] ELSE Append(g[i - 1], s[i])
        BY <2>4, <4>1
      <4> HIDE DEF h
      <4> QED
        BY <4>1, <4>2, <4>3
    <3> QED
      BY <3>1, <3>2
  <2>6. h = [i \in 0..n |-> h[i]]
    OBVIOUS
  <2> HIDE DEF h
  <2>7. Is(h, n)
    BY <2>5, <2>6
  <2> HIDE DEF Is
  <2> QED
    BY <2>7
<1> DEFINE L == Len(s)
           f == CHOOSE g : Is(g, L)
<1>2. L \in Nat /\ DOMAIN s = 1..L /\ \A i \in 1..L : s[i] \in S
  OBVIOUS
<1>3. Unvisited(s, seen) = f[L]
  BY DEF Unvisited
<1> HIDE DEF L
<1>4. Is(f, L)
  <2> HIDE DEF Is
  <2> QED
    BY <1>1, <1>2
<1> HIDE DEF f
<1>5. \A i \in 0..L : f[i] = IF i = 0 THEN <<>>
                             ELSE IF s[i] \in seen THEN f[i - 1] ELSE Append(f[i - 1], s[i])
  BY <1>4
<1> HIDE DEF Is
<1> DEFINE Good(i) == /\ f[i] \in Seq(S)
                      /\ \A j \in 1..Len(f[i]) : \E k \in 1..i : f[i][j] = s[k] /\ s[k] \notin seen
                      /\ \A k \in 1..i : s[k] \notin seen => \E j \in 1..Len(f[i]) : f[i][j] = s[k]
           Wrong == {i \in 0..L : ~ Good(i)}
<1>6. \A i \in 0..L : Good(i)
  <2> SUFFICES ASSUME Wrong # {} PROVE FALSE
    OBVIOUS
  <2>1. PICK i \in Wrong : \A m \in Wrong : i <= m
    <3>1. Wrong \subseteq Nat
      BY <1>2
    <3> HIDE DEF Wrong
    <3> QED
      BY <3>1, LeastNatural
  <2>2. i # 0
    <3>1. 0 \in 0..L /\ f[0] = <<>>
      BY <1>2, <1>5
    <3>2. Good(0)
      BY <3>1
    <3> QED
      BY <2>1, <3>2
  <2>3. i - 1 \in 0..L /\ i \in 1..L /\ i - 1 \notin Wrong /\ i \in Nat
    <3>1. i \in 0..L
      BY <2>1
    <3>2. i - 1 \in 0..L /\ i \in 1..L /\ i \in Nat /\ i - 1 < i
      BY <1>2, <2>2, <3>1
    <3> HIDE DEF Wrong
    <3> QED
      BY <2>1, <3>2
  <2>4. Good(i - 1)
    BY <2>3
  <2>5. CASE s[i] \in seen
    <3>1. f[i] = f[i - 1]
      BY <1>5, <2>2, <2>3, <2>5
    <3>2. \A k \in 1..i : k \in 1..(i - 1) \/ k = i
      BY <2>3
    <3>3. \A k \in 1..(i - 1) : k \in 1..i
      BY <2>3
    <3>4. Good(i)
      BY <2>4, <2>5, <3>1, <3>2, <3>3
    <3> QED
      BY <2>1, <3>4
  <2>6. CASE s[i] \notin seen
    <3> DEFINE p == f[i - 1]
               t == f[i]
    <3>1. t = Append(p, s[i]) /\ p \in Seq(S) /\ s[i] \in S
      BY <1>2, <1>5, <2>2, <2>3, <2>4, <2>6
    <3>2. /\ \A j \in 1..Len(p) : \E k \in 1..(i - 1) : p[j] = s[k] /\ s[k] \notin seen
          /\ \A k \in 1..(i - 1) : s[k] \notin seen => \E j \in 1..Len(p) : p[j] = s[k]
      BY <2>4
    <3> HIDE DEF p, t
    <3>3. /\ t \in Seq(S) /\ Len(t) = Len(p) + 1 /\ Len(p) \in Nat
          /\ t[Len(p) + 1] = s[i] /\ \A j \in 1..Len(p) : t[j] = p[j]
      BY <3>1
    <3>4. ASSUME NEW j \in 1..Len(t) PROVE \E k \in 1..i : t[j] = s[k] /\ s[k] \notin seen
      <4>1. CASE j = Len(p) + 1
        BY <2>3, <2>6, <3>3, <4>1
      <4>2. CASE j # Len(p) + 1
        <5>1. j \in 1..Len(p) /\ t[j] = p[j]
          BY <3>3, <4>2
        <5>2. PICK k \in 1..(i - 1) : p[j] = s[k] /\ s[k] \notin seen
          BY <3>2, <5>1
        <5>3. k \in 1..i
          BY <2>3
        <5> QED
          BY <5>1, <5>2, <5>3
      <4> QED
        BY <4>1, <4>2
    <3>5. ASSUME NEW k \in 1..i, s[k] \notin seen PROVE \E j \in 1..Len(t) : t[j] = s[k]
      <4>1. CASE k = i
        <5>1. Len(p) + 1 \in 1..Len(t)
          BY <3>3
        <5> QED
          BY <3>3, <4>1, <5>1
      <4>2. CASE k # i
        <5>1. k \in 1..(i - 1)
          BY <2>3, <4>2
        <5>2. PICK j \in 1..Len(p) : p[j] = s[k]
          BY <3>2, <3>5, <5>1
        <5>3. j \in 1..Len(t) /\ t[j] = p[j]
          BY <3>3
        <5> QED
          BY <5>2, <5>3
      <4> QED
        BY <4>1, <4>2
    <3>6. Good(i)
      BY <3>3, <3>4, <3>5 DEF t
    <3> QED
      BY <2>1, <3>6
  <2> QED
    BY <2>5, <2>6
<1>7. L \in 0..L
  BY <1>2
<1>8. Good(L)
  BY <1>6, <1>7
<1> DEFINE t == Unvisited(s, seen)
<1>9. /\ t \in Seq(S)
      /\ \A j \in 1..Len(t) : \E k \in 1..L : t[j] = s[k] /\ s[k] \notin seen
      /\ \A k \in 1..L : s[k] \notin seen => \E j \in 1..Len(t) : t[j] = s[k]
  BY <1>3, <1>8
<1> HIDE DEF t
<1>10. Range(s) = {s[k] : k \in 1..L}
  BY <1>2 DEF Range
<1>11. /\ \A j \in 1..Len(t) : t[j] \in Range(s) \ seen
       /\ \A e \in Range(s) \ seen : \E j \in 1..Len(t) : t[j] = e
  <2>1. ASSUME NEW j \in 1..Len(t) PROVE t[j] \in Range(s) \ seen
    <3>1. PICK k \in 1..L : t[j] = s[k] /\ s[k] \notin seen
      BY <1>9
    <3>2. s[k] \in Range(s)
      BY <1>10
    <3> QED
      BY <3>1, <3>2
  <2>2. ASSUME NEW e \in Range(s) \ seen PROVE \E j \in 1..Len(t) : t[j] = e
    <3>1. PICK k \in 1..L : e = s[k]
      BY <1>10
    <3> QED
      BY <1>9, <3>1
  <2> QED
    BY <2>1, <2>2
<1> QED
  BY <1>9, <1>11 DEF t

LEMMA WalkStart == ASSUME WalkInit PROVE WalkInv
<1> DEFINE W == Distance
           seeds == Range(Seeds)
<1>1. WalkTypes /\ queue = (IF walking THEN At(Seeds, 1) ELSE <<>>) /\ visited = {}
      /\ (walking <=> Begun) /\ largest = NoObject /\ (Begun => found = {})
  <2>1. /\ refs \in [Objects -> Seq(Objects)] /\ payload \in [Objects -> Nat]
        /\ Top \in indexed /\ visited = {} /\ kind \in Kinds
        /\ queue = (IF walking THEN At(Seeds, 1) ELSE <<>>)
        /\ walking = ~(Local \/ (kind = "guids" /\ ~hasIndex)) /\ hasIndex \in BOOLEAN
        /\ found = (IF Local THEN {Top} ELSE {}) /\ largest = NoObject
    BY ReferencesAreObjects, PayloadsHaveSizes, TopIsIndexed DEF WalkInit
  <2>2. Seeds \in Seq(Objects)
    <3>1. refs[Top] \in Seq(Objects)
      BY <2>1, TopIsObject
    <3>2. refs[Top] # <<>> => <<Head(refs[Top])>> \in Seq(Objects)
      BY <3>1
    <3> QED
      BY <3>1, <3>2 DEF Seeds
  <2>3. At(Seeds, 1) \in Seq(Objects \X Nat)
    <3> DEFINE n == Len(Seeds)
    <3>1. DOMAIN Seeds = 1..n /\ n \in Nat /\ \A i \in 1..n : Seeds[i] \in Objects
      BY <2>2
    <3>2. At(Seeds, 1) \in [1..n -> Objects \X Nat]
      BY <3>1 DEF At
    <3> HIDE DEF n
    <3> QED
      BY <3>1, <3>2
  <2>4. queue \in Seq(Objects \X Nat)
    <3>1. CASE walking
      BY <2>1, <2>3, <3>1
    <3>2. CASE ~walking
      BY <2>1, <3>2
    <3> QED
      BY <3>1, <3>2
  <2>5. WalkTypes
    BY <2>1, <2>4, TopIsObject, WalkBounds DEF WalkTypes
  <2> QED
    BY <2>1, <2>5 DEF Begun
<1>2. ASSUME Begun PROVE Layers
  <2>1. queue = At(Seeds, 1) /\ Seeds \in Seq(Objects) /\ seeds \in SUBSET Objects
        /\ Succ \in [Objects -> SUBSET Objects] /\ max_depth \in Nat \ {0}
    BY <1>1, <1>2, GraphParts DEF WalkTypes
  <2>2. /\ Len(queue) = Len(Seeds) /\ Len(Seeds) \in Nat
        /\ \A i \in 1..Len(Seeds) : queue[i] = <<Seeds[i], 1>>
        /\ seeds = {Seeds[i] : i \in 1..Len(Seeds)}
    <3>1. DOMAIN Seeds = 1..Len(Seeds) /\ Len(Seeds) \in Nat
      BY <2>1
    <3>2. queue = [i \in 1..Len(Seeds) |-> <<Seeds[i], 1>>]
      BY <2>1, <3>1 DEF At
    <3>3. seeds = {Seeds[i] : i \in 1..Len(Seeds)}
      BY <3>1 DEF Range
    <3> QED
      BY <3>1, <3>2, <3>3
  <2>3. W[0] = {} /\ W[1] = seeds
    <3>1. W = Within(seeds, Succ)
      BY <1>1, GraphParts
    <3> HIDE DEF W, seeds
    <3>2. Within(seeds, Succ)[0] = {} /\ Within(seeds, Succ)[1] = seeds
      <4>1. seeds \in SUBSET Objects /\ Succ \in [Objects -> SUBSET Objects]
        BY <2>1
      <4> QED
        BY <4>1, WithinIs, Zenon
    <3> QED
      BY <3>1, <3>2
  <2> HIDE DEF W, seeds
  <2>4. \A i \in 1..Len(queue) : queue[i][2] = 1 /\ queue[i][1] \in W[1] /\ queue[i][1] = Seeds[i]
    BY <2>2, <2>3
  <2>5. Layered(W, queue, visited)
    BY <1>1, <2>1, <2>4 DEF Layered
  <2>6. Complete(W, Succ, queue, visited)
    <3>1. CASE queue # <<>>
      <4>1. Depth(queue) = 1
        <5>1. 1 \in 1..Len(queue)
          BY <1>1, <3>1 DEF WalkTypes
        <5> QED
          BY <2>4, <3>1, <5>1 DEF Depth
      <4>2. \A o \in W[1] : QueuedAt(queue, o, 1)
        BY <2>2, <2>3, <2>4 DEF QueuedAt
      <4> QED
        BY <1>1, <2>3, <4>1, <4>2 DEF Complete
    <3>2. CASE queue = <<>>
      <4>1. seeds = {}
        <5>1. Len(queue) = 0
          BY <3>2
        <5> QED
          BY <2>2, <5>1
      <4>2. W = Within(seeds, Succ)
        BY <1>1, GraphParts DEF W, seeds
      <4>3. Within(seeds, Succ)[max_depth] \subseteq {}
        <5>1. seeds \subseteq {} /\ \A o \in {} \cap Objects : Succ[o] \subseteq {}
          BY <4>1
        <5> QED
          BY <2>1, <5>1, WithinClosed
      <4>4. Depth(queue) = max_depth + 1
        BY <3>2 DEF Depth
      <4>5. Depth(queue) - 1 = max_depth /\ ~(Depth(queue) <= max_depth) /\ ~(Depth(queue) < max_depth)
        BY <2>1, <4>4
      <4> QED
        BY <4>2, <4>3, <4>5 DEF Complete
    <3> QED
      BY <3>1, <3>2
  <2> QED
    BY <2>5, <2>6 DEF Layers, W
<1>3. ASSUME Begun PROVE Results
  BY <1>1, <1>3 DEF Results, Carriers
<1> QED
  BY <1>1, <1>2, <1>3 DEF WalkInv

LEMMA WalkStep == WalkInv /\ [WalkNext]_walkVars => WalkInv'
<1> SUFFICES ASSUME WalkInv, [WalkNext]_walkVars PROVE WalkInv'
  OBVIOUS
<1>0. WalkTypes /\ (walking => Begun)
  BY DEF WalkInv
<1>1. ASSUME Stepping, UNCHANGED <<graph, walking>>
      PROVE  /\ Begun /\ Begun' = Begun /\ Layers /\ Results /\ queue # <<>>
             /\ UNCHANGED <<kind, hasIndex, indexed, refs, payload>>
             /\ object \in Objects
  <2>1. Begun /\ Layers /\ Results
    BY <1>1 DEF WalkInv, Stepping
  <2>2. Begun' = Begun
    BY <1>1, GraphKept
  <2>3. 1 \in 1..Len(queue) /\ Head(queue) = queue[1]
    BY <1>0, <1>1 DEF WalkTypes, Stepping
  <2>4. object \in Objects
    BY <1>0, <2>3, PairParts DEF object, WalkTypes
  <2> QED
    BY <1>1, <2>1, <2>2, <2>4 DEF Stepping, graph
<1>2. ASSUME Stepping, UNCHANGED <<graph, walking, found, largest>>,
             queue' = Tail(queue), visited' = visited \cup {object},
             object \in visited \/ object \notin indexed
      PROVE  WalkInv'
  <2>1. /\ Begun /\ Begun' = Begun /\ Layers /\ Results /\ queue # <<>>
        /\ UNCHANGED <<kind, hasIndex, indexed, refs, payload>>
    BY <1>1, <1>2
  <2>2. Tail(queue) \o At(<<>>, depth + 1) = Tail(queue)
    <3>1. At(<<>>, depth + 1) = <<>>
      BY DEF At
    <3>2. Tail(queue) \in Seq(Objects \X Nat)
      BY <1>0, <2>1 DEF WalkTypes
    <3> QED
      BY <3>1, <3>2
  <2>3. object \notin visited => RefsOf(object) = <<>>
    BY <1>2 DEF RefsOf
  <2>4. Range(<<>>) = {}
    BY DEF Range
  <2>5. WalkTypes' /\ Layers'
    <3>1. /\ <<>> \in Seq(Objects) /\ Len(<<>>) = 0
          /\ \A j \in 1..Len(<<>>) : <<>>[j] \in Range(RefsOf(object))
      OBVIOUS
    <3>2. depth < max_depth /\ object \notin visited =>
               \A e \in Range(RefsOf(object)) :
                   e \in visited \cup {object} \/ \E j \in 1..Len(<<>>) : <<>>[j] = e
      BY <2>3, <2>4
    <3>3. queue' = Tail(queue) \o At(<<>>, depth + 1) /\ UNCHANGED graph
      BY <1>2, <2>2
    <3> QED
      BY <1>0, <1>2, <2>1, <3>1, <3>2, <3>3, WalkTurn
  <2>6. Carriers' = Carriers
    BY <1>2, <2>1 DEF Carriers
  <2>7. Results'
    BY <1>2, <2>1, <2>6 DEF Results
  <2> QED
    BY <1>0, <1>2, <2>1, <2>5, <2>7 DEF WalkInv
<1>3. CASE PassVisited
  <2>1. visited' = visited \cup {object}
    BY <1>3 DEF PassVisited
  <2> QED
    BY <1>2, <1>3, <2>1 DEF PassVisited
<1>4. CASE PassUnknown
  BY <1>2, <1>4 DEF PassUnknown
<1>5. CASE Visit
  <2>0. Stepping /\ UNCHANGED <<graph, walking>> /\ object \in indexed \ visited
        /\ visited' = visited \cup {object}
    BY <1>5 DEF Visit
  <2>1. /\ Begun /\ Begun' = Begun /\ Layers /\ Results /\ queue # <<>>
        /\ UNCHANGED <<kind, hasIndex, indexed, refs, payload>> /\ object \in Objects
    BY <1>1, <2>0
  <2>2. PICK all : all = Unvisited(refs[object], visited \cup {object})
    OBVIOUS
  <2>3. /\ refs[object] \in Seq(Objects) /\ RefsOf(object) = refs[object]
        /\ all \in Seq(Objects)
        /\ \A j \in 1..Len(all) : all[j] \in Range(refs[object])
        /\ \A e \in Range(refs[object]) \ (visited \cup {object}) : \E j \in 1..Len(all) : all[j] = e
    <3>1. refs[object] \in Seq(Objects) /\ RefsOf(object) = refs[object]
      BY <1>0, <2>0, <2>1 DEF WalkTypes, RefsOf
    <3>2. PICK seen : seen = visited \cup {object}
      OBVIOUS
    <3>3. PICK s : s = refs[object]
      OBVIOUS
    <3>4. /\ Unvisited(s, seen) \in Seq(Objects)
          /\ \A j \in 1..Len(Unvisited(s, seen)) : Unvisited(s, seen)[j] \in Range(s) \ seen
          /\ \A e \in Range(s) \ seen : \E j \in 1..Len(Unvisited(s, seen)) : Unvisited(s, seen)[j] = e
      BY <3>1, <3>3, UnvisitedIs
    <3>5. all = Unvisited(s, seen)
      BY <2>2, <3>2, <3>3
    <3> QED
      BY <3>1, <3>2, <3>3, <3>4, <3>5
  <2>4. queue' = IF depth >= max_depth THEN Tail(queue) ELSE Tail(queue) \o At(all, depth + 1)
    BY <1>5, <2>0, <2>2 DEF Visit, Enqueued
  <2>5. depth \in Nat /\ max_depth \in Nat
    <3>1. 1 \in 1..Len(queue) /\ Head(queue) = queue[1]
      BY <1>0, <2>1 DEF WalkTypes
    <3> QED
      BY <1>0, <3>1, PairParts DEF depth, WalkTypes
  <2>6. WalkTypes' /\ Layers'
    <3>1. CASE depth >= max_depth
      <4>1. ~(depth < max_depth)
        BY <2>5, <3>1
      <4>2. Tail(queue) \o At(<<>>, depth + 1) = Tail(queue)
        <5>1. At(<<>>, depth + 1) = <<>>
          BY DEF At
        <5>2. Tail(queue) \in Seq(Objects \X Nat)
          BY <1>0, <2>1 DEF WalkTypes
        <5> QED
          BY <5>1, <5>2
      <4>3. <<>> \in Seq(Objects) /\ \A j \in 1..Len(<<>>) : <<>>[j] \in Range(RefsOf(object))
        OBVIOUS
      <4>4. queue' = Tail(queue) \o At(<<>>, depth + 1) /\ UNCHANGED graph
        BY <2>0, <2>4, <3>1, <4>2
      <4> QED
        BY <1>0, <2>0, <2>1, <4>1, <4>3, <4>4, WalkTurn
    <3>2. CASE ~(depth >= max_depth)
      <4>1. depth < max_depth
        BY <2>5, <3>2
      <4>2. queue' = Tail(queue) \o At(all, depth + 1) /\ UNCHANGED graph
        BY <2>0, <2>4, <3>2
      <4>3. \A e \in Range(RefsOf(object)) :
                e \in visited \cup {object} \/ \E j \in 1..Len(all) : all[j] = e
        BY <2>3
      <4>4. \A j \in 1..Len(all) : all[j] \in Range(RefsOf(object))
        BY <2>3
      <4> QED
        BY <1>0, <2>0, <2>1, <2>3, <4>1, <4>2, <4>3, <4>4, WalkTurn
    <3> QED
      BY <3>1, <3>2
  <2>7. Carriers' = IF payload[object] > 0 THEN Carriers \cup {object} ELSE Carriers
    BY <2>0, <2>1 DEF Carriers
  <2>8. Results'
    <3>1. CASE kind = "picture"
      <4>1. largest' = (IF Larger(object) THEN object ELSE largest) /\ found' = found
        BY <1>5, <3>1 DEF Visit
      <4>2. /\ found = {}
            /\ largest = NoObject => Carriers = {}
            /\ largest # NoObject =>
                 largest \in Carriers /\ \A o \in Carriers : payload[o] <= payload[largest]
        BY <2>1, <3>1 DEF Results
      <4>3. \A o \in Objects : payload[o] \in Nat /\ o # NoObject
        BY <1>0 DEF WalkTypes
      <4>4. Carriers \subseteq Objects
        BY <1>0 DEF Carriers, WalkTypes
      <4>5. CASE largest = NoObject
        <5>1. Larger(object) <=> payload[object] > 0
          BY <4>5 DEF Larger
        <5>2. Carriers' = IF payload[object] > 0 THEN {object} ELSE {}
          BY <2>7, <4>2, <4>5
        <5>3. CASE payload[object] > 0
          <6>1. largest' = object /\ Carriers' = {object}
            BY <4>1, <5>1, <5>2, <5>3
          <6>2. payload'[object] <= payload'[object]
            BY <2>1, <4>3
          <6> QED
            BY <2>1, <3>1, <4>1, <4>2, <4>3, <6>1, <6>2 DEF Results
        <5>4. CASE ~(payload[object] > 0)
          <6>1. largest' = NoObject /\ Carriers' = {}
            BY <4>1, <4>5, <5>1, <5>2, <5>4
          <6> QED
            BY <2>1, <3>1, <4>1, <4>2, <6>1 DEF Results
        <5> QED
          BY <5>3, <5>4
      <4>6. CASE largest # NoObject
        <5>1. Larger(object) <=> payload[object] > payload[largest]
          BY <4>6 DEF Larger
        <5>2. largest \in Carriers /\ \A o \in Carriers : payload[o] <= payload[largest]
          BY <4>2, <4>6
        <5>3. payload[largest] > 0 /\ payload[largest] \in Nat /\ payload[object] \in Nat
          BY <2>1, <4>3, <4>4, <5>2 DEF Carriers
        <5>4. CASE payload[object] > payload[largest]
          <6>1. largest' = object /\ Carriers' = Carriers \cup {object} /\ largest' # NoObject
            BY <2>1, <2>7, <4>1, <4>3, <5>1, <5>3, <5>4
          <6>2. \A o \in Carriers' : payload[o] <= payload[largest']
            BY <4>3, <4>4, <5>2, <5>3, <5>4, <6>1
          <6> QED
            BY <2>1, <3>1, <4>1, <4>2, <6>1, <6>2 DEF Results
        <5>5. CASE ~(payload[object] > payload[largest])
          <6>1. largest' = largest /\ Carriers \subseteq Carriers'
            BY <2>7, <4>1, <5>1, <5>5
          <6>2. \A o \in Carriers' : payload[o] <= payload[largest]
            BY <2>7, <5>2, <5>3, <5>5
          <6> QED
            BY <2>1, <3>1, <4>1, <4>2, <4>6, <5>2, <6>1, <6>2 DEF Results
        <5> QED
          BY <5>4, <5>5
      <4> QED
        BY <4>5, <4>6
    <3>2. CASE kind # "picture"
      <4>1. found' = (IF payload[object] > 0 THEN found \cup {object} ELSE found)
            /\ largest' = largest
        BY <1>5, <3>2 DEF Visit
      <4>2. found = Carriers /\ largest = NoObject
        BY <2>1, <3>2 DEF Results
      <4>3. found' = Carriers'
        BY <2>7, <4>1, <4>2
      <4> QED
        BY <2>1, <3>2, <4>1, <4>2, <4>3 DEF Results
    <3> QED
      BY <3>1, <3>2
  <2> QED
    BY <1>0, <2>0, <2>1, <2>6, <2>8 DEF WalkInv
<1>6. CASE EndWalk \/ WalkStop \/ UNCHANGED walkVars
  <2>1. UNCHANGED <<graph, queue, visited, found, largest>> /\ (walking' => walking)
    BY <1>6 DEF EndWalk, WalkStop, walkVars
  <2>2. UNCHANGED <<kind, hasIndex, indexed, refs, payload>>
    BY <2>1 DEF graph
  <2>3. Begun' = Begun /\ Distance' = Distance /\ Succ' = Succ
    BY <2>1, GraphKept
  <2>4. WalkTypes'
    BY <1>0, <2>1, <2>2 DEF WalkTypes
  <2>5. Results => Results'
    BY <2>1, <2>2 DEF Results, Carriers
  <2>6. Layers => Layers'
    BY <2>1, <2>3 DEF Layers, Layered, Complete, Depth, IsQueued, QueuedAt
  <2> QED
    BY <2>1, <2>3, <2>4, <2>5, <2>6 DEF WalkInv
<1> QED
  BY <1>3, <1>4, <1>5, <1>6 DEF WalkNext

LEMMA WalkFinds == WalkInv => WalkFindsReachable
<1> SUFFICES ASSUME WalkInv, ~walking, ~Local, kind = "guids" => hasIndex
             PROVE  /\ found \subseteq Holding /\ largest \in Holding \cup {NoObject}
                    /\ queue = <<>> =>
                         IF kind # "picture" THEN found = Holding
                         ELSE /\ largest = NoObject <=> Holding = {}
                              /\ \A o \in Holding : payload[largest] >= payload[o]
  BY DEF WalkFindsReachable
<1>1. WalkTypes /\ Layers /\ Results
  BY DEF WalkInv, Begun
<1>2. Carriers \subseteq Holding
  BY <1>1 DEF Layers, Layered, Carriers, Holding, Reachable
<1>3. found \subseteq Holding /\ largest \in Holding \cup {NoObject}
  BY <1>1, <1>2 DEF Results
<1>4. ASSUME queue = <<>> PROVE Carriers = Holding
  <2>1. Depth(queue) - 1 = max_depth
    BY <1>1, <1>4 DEF Depth, WalkTypes
  <2>2. Distance[max_depth] \subseteq visited
    BY <1>1, <2>1 DEF Layers, Complete
  <2> QED
    BY <1>2, <2>2 DEF Carriers, Holding, Reachable
<1>5. ASSUME queue = <<>>, kind # "picture" PROVE found = Holding
  BY <1>1, <1>4, <1>5 DEF Results
<1>6. ASSUME queue = <<>>, kind = "picture"
      PROVE  /\ largest = NoObject <=> Holding = {}
             /\ \A o \in Holding : payload[largest] >= payload[o]
  <2>1. Carriers = Holding
    BY <1>4, <1>6
  <2>2. /\ largest = NoObject => Carriers = {}
        /\ largest # NoObject =>
              largest \in Carriers /\ \A o \in Carriers : payload[o] <= payload[largest]
    BY <1>1, <1>6 DEF Results
  <2>3. \A o \in Carriers : payload[o] \in Nat
    BY <1>1 DEF Carriers, WalkTypes
  <2> QED
    BY <2>1, <2>2, <2>3
<1> QED
  BY <1>3, <1>5, <1>6

(* In graphs of any shape, cyclic ones included, and for any bounds, a     *)
(* walk whose queue ran empty found all there is within its depth and      *)
(* nothing else, however often objects are shared.                         *)
THEOREM WalksFind == WalkSpec => []WalkFindsReachable
<1> QED
  BY WalkStart, WalkStep, WalkFinds, PTL DEF WalkSpec

-----------------------------------------------------------------------------
(* The loops that copy members of a list.                                  *)

(* What is computed a step at a time, from 1 to n, exists and is unique.   *)
IsLoop(g, n, init, turn) ==
    g[0] = init /\ \A k \in 1..n : g[k] = turn[k][g[k - 1]]

LEMMA LoopExists ==
    ASSUME NEW T, NEW init \in T, NEW turn \in [Nat \ {0} -> [T -> T]], NEW n \in Nat
    PROVE  \E g \in [0..n -> T] : IsLoop(g, n, init, turn)
<1> DEFINE Bad == {m \in Nat : ~ \E g \in [0..m -> T] : IsLoop(g, m, init, turn)}
<1> SUFFICES ASSUME Bad # {} PROVE FALSE
  OBVIOUS
<1>1. PICK m \in Bad : \A j \in Bad : m <= j
  <2>1. Bad \subseteq Nat
    OBVIOUS
  <2> HIDE DEF Bad
  <2> QED
    BY <2>1, LeastNatural
<1>2. m \in Nat /\ ~ \E g \in [0..m -> T] : IsLoop(g, m, init, turn)
  OBVIOUS
<1>3. CASE m = 0
  <2> DEFINE g == [k \in 0..0 |-> init]
  <2>1. g \in [0..0 -> T] /\ IsLoop(g, 0, init, turn)
    BY DEF IsLoop
  <2> QED
    BY <1>2, <1>3, <2>1
<1>4. CASE m # 0
  <2>1. m - 1 \in Nat /\ m - 1 < m /\ m \in Nat \ {0}
    BY <1>2, <1>4
  <2>2. m - 1 \notin Bad
    BY <1>1, <1>2, <2>1
  <2>3. PICK g \in [0..(m - 1) -> T] : IsLoop(g, m - 1, init, turn)
    BY <2>1, <2>2
  <2>4. g[m - 1] \in T
    BY <2>1, <2>3
  <2>5. turn[m][g[m - 1]] \in T
    BY <2>1, <2>4
  <2> DEFINE h == [k \in 0..m |-> IF k = m THEN turn[m][g[m - 1]] ELSE g[k]]
  <2>6. h \in [0..m -> T]
    <3> SUFFICES ASSUME NEW k \in 0..m, k # m PROVE g[k] \in T
      BY <2>5
    <3>1. k \in 0..(m - 1)
      BY <1>2
    <3> QED
      BY <2>3, <3>1
  <2>7. \A k \in 0..(m - 1) : h[k] = g[k]
    BY <1>2
  <2>8. h[m] = turn[m][g[m - 1]] /\ m - 1 \in 0..(m - 1) /\ 0 \in 0..(m - 1)
    BY <2>1
  <2> HIDE DEF h
  <2>9. \A k \in 1..m : h[k] = turn[k][h[k - 1]]
    <3> TAKE k \in 1..m
    <3>1. CASE k = m
      BY <2>7, <2>8, <3>1
    <3>2. CASE k # m
      <4>1. k \in 1..(m - 1) /\ k \in 0..(m - 1) /\ k - 1 \in 0..(m - 1)
        BY <3>2, <1>2
      <4>2. g[k] = turn[k][g[k - 1]]
        BY <2>3, <4>1 DEF IsLoop
      <4> QED
        BY <2>7, <4>1, <4>2
    <3> QED
      BY <3>1, <3>2
  <2>10. h[0] = init
    BY <2>3, <2>7, <2>8 DEF IsLoop
  <2> QED
    BY <1>2, <2>6, <2>9, <2>10 DEF IsLoop
<1> QED
  BY <1>3, <1>4

LEMMA StepsAgree ==
    ASSUME NEW n \in Nat, NEW g, NEW h, g[0] = h[0],
           \A k \in 1..n : g[k - 1] = h[k - 1] => g[k] = h[k]
    PROVE  g[n] = h[n]
<1> DEFINE Bad == {k \in Nat : k <= n /\ g[k] # h[k]}
<1> SUFFICES ASSUME Bad # {} PROVE FALSE
  OBVIOUS
<1>1. PICK k \in Bad : \A j \in Bad : k <= j
  <2>1. Bad \subseteq Nat
    OBVIOUS
  <2> HIDE DEF Bad
  <2> QED
    BY <2>1, LeastNatural
<1>2. k \in Nat /\ k <= n /\ g[k] # h[k] /\ k # 0
  OBVIOUS
<1>3. k - 1 \in Nat /\ k - 1 < k /\ k - 1 <= n /\ k \in 1..n
  BY <1>2
<1>4. k - 1 \notin Bad
  BY <1>1, <1>2, <1>3
<1> QED
  BY <1>2, <1>3, <1>4

(* A set of lists that has the empty one and every longer one has all.     *)
LEMMA ListInduction ==
    ASSUME NEW S, NEW P, <<>> \in P,
           \A s \in Seq(S), e \in S : s \in P => Append(s, e) \in P
    PROVE  Seq(S) \subseteq P
<1> DEFINE Bad == {Len(s) : s \in Seq(S) \ P}
<1> SUFFICES ASSUME Bad # {} PROVE FALSE
  OBVIOUS
<1>1. PICK n \in Bad : \A m \in Bad : n <= m
  <2>1. Bad \subseteq Nat
    BY LenProperties
  <2> HIDE DEF Bad
  <2> QED
    BY <2>1, LeastNatural
<1>2. PICK s \in Seq(S) \ P : n = Len(s)
  OBVIOUS
<1>3. PICK t \in Seq(S), e \in S : s = Append(t, e)
  BY SequenceEmptyOrAppend
<1>4. Len(s) = Len(t) + 1 /\ Len(t) \in Nat
  BY <1>3, AppendProperties, LenProperties
<1>5. t \notin P
  BY <1>2, <1>3
<1>6. Len(t) \in Bad
  BY <1>5
<1> HIDE DEF Bad
<1>7. Len(s) <= Len(t)
  BY <1>1, <1>2, <1>6
<1> QED
  BY <1>4, <1>7

(* The two loops: Only and Once of a list that grows.                      *)
OnlyTurn(S, seq, wanted) ==
    [k \in Nat \ {0} |-> [t \in Seq(S) |->
        IF k \in 1..Len(seq) /\ seq[k] \in wanted THEN Append(t, seq[k]) ELSE t]]
OnceTurn(S, seq) ==
    [k \in Nat \ {0} |-> [t \in Seq(S) |->
        IF k \in 1..Len(seq) /\ ~ \E m \in 1..(k - 1) : seq[m] = seq[k] THEN Append(t, seq[k]) ELSE t]]

OnlyLoop(g, S, seq, wanted) ==
    /\ g \in [0..Len(seq) -> Seq(S)]
    /\ g[0] = <<>> /\ Only(seq, wanted) = g[Len(seq)]
    /\ \A k \in 1..Len(seq) :
         g[k] = IF seq[k] \in wanted THEN Append(g[k - 1], seq[k]) ELSE g[k - 1]
OnceLoop(g, S, seq) ==
    /\ g \in [0..Len(seq) -> Seq(S)]
    /\ g[0] = <<>> /\ Once(seq) = g[Len(seq)]
    /\ \A k \in 1..Len(seq) :
         g[k] = IF \E m \in 1..(k - 1) : seq[m] = seq[k] THEN g[k - 1]
                ELSE Append(g[k - 1], seq[k])

LEMMA OnlyIs ==
    ASSUME NEW S, NEW seq \in Seq(S), NEW wanted
    PROVE  \E g : OnlyLoop(g, S, seq, wanted)
<1> DEFINE n     == Len(seq)
           turn  == OnlyTurn(S, seq, wanted)
           Is(f) == f = [k \in 0..n |->
                          IF k = 0 THEN <<>>
                          ELSE IF seq[k] \in wanted THEN Append(f[k - 1], seq[k]) ELSE f[k - 1]]
           out   == CHOOSE f : Is(f)
<1>1. n \in Nat /\ <<>> \in Seq(S) /\ \A k \in 1..n : seq[k] \in S
  BY LenProperties, EmptySeq, ElementOfSeq
<1>2. turn \in [Nat \ {0} -> [Seq(S) -> Seq(S)]]
  BY <1>1, AppendProperties DEF OnlyTurn
<1>3. PICK g \in [0..n -> Seq(S)] : IsLoop(g, n, <<>>, turn)
  <2> HIDE DEF turn, n
  <2> QED
    BY <1>1, <1>2, LoopExists
<1>4. \A k \in 1..n : g[k] = IF seq[k] \in wanted THEN Append(g[k - 1], seq[k]) ELSE g[k - 1]
  <2> TAKE k \in 1..n
  <2>1. k \in Nat \ {0} /\ k - 1 \in 0..n
    BY <1>1
  <2>2. g[k - 1] \in Seq(S)
    BY <2>1
  <2>3. g[k] = turn[k][g[k - 1]]
    BY <1>3 DEF IsLoop
  <2> QED
    BY <2>1, <2>2, <2>3 DEF OnlyTurn
<1>5. g[0] = <<>>
  BY <1>3 DEF IsLoop
<1>6. Is(g)
  <2>1. \A k \in 0..n : k # 0 => k \in 1..n
    BY <1>1
  <2> QED
    BY <1>4, <1>5, <2>1
<1>7. Is(out)
  BY <1>6
<1>8. PICK f : Is(f) /\ Only(seq, wanted) = f[n]
  <2>1. Only(seq, wanted) = out[n]
    BY DEF Only
  <2> HIDE DEF Is, n
  <2> QED
    BY <1>7, <2>1
<1>9. f = [k \in 0..n |->
            IF k = 0 THEN <<>>
            ELSE IF seq[k] \in wanted THEN Append(f[k - 1], seq[k]) ELSE f[k - 1]]
  BY <1>8
<1>10. f[0] = <<>> /\ \A k \in 1..n : f[k] = IF seq[k] \in wanted THEN Append(f[k - 1], seq[k]) ELSE f[k - 1]
  <2>1. 0 \in 0..n /\ \A k \in 1..n : k \in 0..n /\ k # 0
    BY <1>1
  <2> HIDE DEF n
  <2> QED
    BY <1>9, <2>1
<1>11. \A k \in 1..n : f[k - 1] = g[k - 1] => f[k] = g[k]
  <2> HIDE DEF n
  <2> QED
    BY <1>4, <1>10
<1>12. f[n] = g[n]
  <2>1. n \in Nat /\ f[0] = g[0]
    BY <1>1, <1>5, <1>10
  <2> HIDE DEF n
  <2> QED
    BY <1>11, <2>1, StepsAgree
<1> QED
  BY <1>4, <1>5, <1>8, <1>12 DEF OnlyLoop, OnceLoop

LEMMA OnceIs ==
    ASSUME NEW S, NEW seq \in Seq(S)
    PROVE  \E g : OnceLoop(g, S, seq)
<1> DEFINE n     == Len(seq)
           turn  == OnceTurn(S, seq)
           Is(f) == f = [k \in 0..n |->
                          IF k = 0 THEN <<>>
                          ELSE IF \E m \in 1..(k - 1) : seq[m] = seq[k] THEN f[k - 1]
                          ELSE Append(f[k - 1], seq[k])]
           out   == CHOOSE f : Is(f)
<1>1. n \in Nat /\ <<>> \in Seq(S) /\ \A k \in 1..n : seq[k] \in S
  BY LenProperties, EmptySeq, ElementOfSeq
<1>2. turn \in [Nat \ {0} -> [Seq(S) -> Seq(S)]]
  BY <1>1, AppendProperties DEF OnceTurn
<1>3. PICK g \in [0..n -> Seq(S)] : IsLoop(g, n, <<>>, turn)
  <2> HIDE DEF turn, n
  <2> QED
    BY <1>1, <1>2, LoopExists
<1>4. \A k \in 1..n : g[k] = IF \E m \in 1..(k - 1) : seq[m] = seq[k] THEN g[k - 1]
                              ELSE Append(g[k - 1], seq[k])
  <2> TAKE k \in 1..n
  <2>1. k \in Nat \ {0} /\ k - 1 \in 0..n
    BY <1>1
  <2>2. g[k - 1] \in Seq(S)
    BY <2>1
  <2>3. g[k] = turn[k][g[k - 1]]
    BY <1>3 DEF IsLoop
  <2> QED
    BY <2>1, <2>2, <2>3 DEF OnceTurn
<1>5. g[0] = <<>>
  BY <1>3 DEF IsLoop
<1>6. Is(g)
  <2>1. \A k \in 0..n : k # 0 => k \in 1..n
    BY <1>1
  <2> QED
    BY <1>4, <1>5, <2>1
<1>7. Is(out)
  BY <1>6
<1>8. PICK f : Is(f) /\ Once(seq) = f[n]
  <2>1. Once(seq) = out[n]
    BY DEF Once
  <2> HIDE DEF Is, n
  <2> QED
    BY <1>7, <2>1
<1>9. f = [k \in 0..n |->
            IF k = 0 THEN <<>>
            ELSE IF \E m \in 1..(k - 1) : seq[m] = seq[k] THEN f[k - 1]
                               ELSE Append(f[k - 1], seq[k])]
  BY <1>8
<1>10. f[0] = <<>> /\ \A k \in 1..n : f[k] = IF \E m \in 1..(k - 1) : seq[m] = seq[k] THEN f[k - 1]
                               ELSE Append(f[k - 1], seq[k])
  <2>1. 0 \in 0..n /\ \A k \in 1..n : k \in 0..n /\ k # 0
    BY <1>1
  <2> HIDE DEF n
  <2> QED
    BY <1>9, <2>1
<1>11. \A k \in 1..n : f[k - 1] = g[k - 1] => f[k] = g[k]
  <2> HIDE DEF n
  <2> QED
    BY <1>4, <1>10
<1>12. f[n] = g[n]
  <2>1. n \in Nat /\ f[0] = g[0]
    BY <1>1, <1>5, <1>10
  <2> HIDE DEF n
  <2> QED
    BY <1>11, <2>1, StepsAgree
<1> QED
  BY <1>4, <1>5, <1>8, <1>12 DEF OnlyLoop, OnceLoop

LEMMA OnlyEmpty == \A wanted : Only(<<>>, wanted) = <<>>
<1> TAKE wanted
<1>1. <<>> \in Seq({}) /\ Len(<<>>) = 0
  BY EmptySeq
<1>2. PICK g : OnlyLoop(g, {}, <<>>, wanted)
  BY <1>1, OnlyIs
<1> QED
  BY <1>1, <1>2 DEF OnlyLoop

LEMMA OnceEmpty == Once(<<>>) = <<>>
<1>1. <<>> \in Seq({}) /\ Len(<<>>) = 0
  BY EmptySeq
<1>2. PICK g : OnceLoop(g, {}, <<>>)
  BY <1>1, OnceIs
<1> QED
  BY <1>1, <1>2 DEF OnceLoop

LEMMA OnlyType ==
    ASSUME NEW S, NEW seq \in Seq(S), NEW wanted
    PROVE  Only(seq, wanted) \in Seq(S)
<1>1. Len(seq) \in 0..Len(seq)
  BY LenProperties
<1>2. PICK g : OnlyLoop(g, S, seq, wanted)
  BY OnlyIs
<1> QED
  BY <1>1, <1>2 DEF OnlyLoop

LEMMA OnceType ==
    ASSUME NEW S, NEW seq \in Seq(S)
    PROVE  Once(seq) \in Seq(S)
<1>1. Len(seq) \in 0..Len(seq)
  BY LenProperties
<1>2. PICK g : OnceLoop(g, S, seq)
  BY OnceIs
<1> QED
  BY <1>1, <1>2 DEF OnceLoop

LEMMA OnlyAppend ==
    ASSUME NEW S, NEW seq \in Seq(S), NEW e \in S, NEW wanted
    PROVE  Only(Append(seq, e), wanted) =
             IF e \in wanted THEN Append(Only(seq, wanted), e) ELSE Only(seq, wanted)
<1> DEFINE n == Len(seq)
           t == Append(seq, e)
<1>1. /\ n \in Nat /\ t \in Seq(S) /\ Len(t) = n + 1 /\ t[n + 1] = e
      /\ \A k \in 1..n : t[k] = seq[k]
  BY AppendProperties, LenProperties
<1> HIDE DEF t
<1>2. PICK g : OnlyLoop(g, S, seq, wanted)
  BY OnlyIs
<1>3. PICK h : OnlyLoop(h, S, t, wanted)
  BY <1>1, OnlyIs
<1>4. \A k \in 1..n : h[k] = IF t[k] \in wanted THEN Append(h[k - 1], t[k]) ELSE h[k - 1]
  BY <1>1, <1>3 DEF OnlyLoop
<1>5. \A k \in 1..n : g[k - 1] = h[k - 1] => g[k] = h[k]
  BY <1>1, <1>2, <1>4 DEF OnlyLoop
<1>6. g[n] = h[n]
  <2>1. g[0] = h[0] /\ n \in Nat
    BY <1>1, <1>2, <1>3 DEF OnlyLoop
  <2> HIDE DEF n
  <2> QED
    BY <1>5, <2>1, StepsAgree
<1>7. h[n + 1] = IF t[n + 1] \in wanted THEN Append(h[n], t[n + 1]) ELSE h[n]
  <2>1. n + 1 \in 1..Len(t) /\ (n + 1) - 1 = n
    BY <1>1
  <2> QED
    BY <1>3, <2>1 DEF OnlyLoop
<1> QED
  BY <1>1, <1>2, <1>3, <1>6, <1>7 DEF t, OnlyLoop

LEMMA OnceAppend ==
    ASSUME NEW S, NEW seq \in Seq(S), NEW e \in S
    PROVE  Once(Append(seq, e)) =
             IF e \in Range(seq) THEN Once(seq) ELSE Append(Once(seq), e)
<1> DEFINE n == Len(seq)
           t == Append(seq, e)
<1>1. /\ n \in Nat /\ t \in Seq(S) /\ Len(t) = n + 1 /\ t[n + 1] = e
      /\ \A k \in 1..n : t[k] = seq[k]
  BY AppendProperties, LenProperties
<1> HIDE DEF t
<1>2. PICK g : OnceLoop(g, S, seq)
  BY OnceIs
<1>3. PICK h : OnceLoop(h, S, t)
  BY <1>1, OnceIs
<1>4. \A k \in 1..n : (\E m \in 1..(k - 1) : t[m] = t[k]) <=> (\E m \in 1..(k - 1) : seq[m] = seq[k])
  <2> TAKE k \in 1..n
  <2>1. \A m \in 1..(k - 1) : t[m] = seq[m] /\ t[k] = seq[k]
    BY <1>1
  <2> QED
    BY <2>1
<1>5. \A k \in 1..n : g[k - 1] = h[k - 1] => g[k] = h[k]
  <2> TAKE k \in 1..n
  <2>1. k \in 1..Len(t) /\ t[k] = seq[k]
    BY <1>1
  <2>2. h[k] = IF \E m \in 1..(k - 1) : t[m] = t[k] THEN h[k - 1] ELSE Append(h[k - 1], t[k])
    BY <1>3, <2>1 DEF OnceLoop
  <2>3. h[k] = IF \E m \in 1..(k - 1) : seq[m] = seq[k] THEN h[k - 1] ELSE Append(h[k - 1], seq[k])
    BY <1>4, <2>1, <2>2
  <2> QED
    BY <1>2, <2>3 DEF OnceLoop
<1>6. g[n] = h[n]
  <2>1. g[0] = h[0] /\ n \in Nat
    BY <1>1, <1>2, <1>3 DEF OnceLoop
  <2> HIDE DEF n
  <2> QED
    BY <1>5, <2>1, StepsAgree
<1>7. h[n + 1] = IF \E m \in 1..n : t[m] = e THEN h[n] ELSE Append(h[n], e)
  <2>1. n + 1 \in 1..Len(t) /\ (n + 1) - 1 = n
    BY <1>1
  <2> QED
    BY <1>1, <1>3, <2>1 DEF OnceLoop
<1>8. (\E m \in 1..n : t[m] = e) <=> e \in Range(seq)
  <2>1. Range(seq) = {seq[m] : m \in 1..n}
    BY RangeEquality
  <2> QED
    BY <1>1, <2>1
<1> QED
  BY <1>1, <1>2, <1>3, <1>6, <1>7, <1>8 DEF t, OnceLoop, OnceLoop

-----------------------------------------------------------------------------
(* What the loops keep.                                                    *)
LEMMA RangeAppend ==
    ASSUME NEW S, NEW seq \in Seq(S), NEW e \in S
    PROVE  /\ Range(Append(seq, e)) = Range(seq) \cup {e}
           /\ IsInjective(Append(seq, e)) <=> IsInjective(seq) /\ e \notin Range(seq)
<1> DEFINE n == Len(seq)
           t == Append(seq, e)
<1>1. /\ n \in Nat /\ t \in Seq(S) /\ Len(t) = n + 1 /\ t[n + 1] = e
      /\ \A k \in 1..n : t[k] = seq[k]
      /\ DOMAIN t = 1..(n + 1) /\ DOMAIN seq = 1..n
  BY AppendProperties, LenProperties
<1> HIDE DEF t, n
<1>2. \A k \in 1..(n + 1) : k = n + 1 \/ k \in 1..n
  BY <1>1
<1>3. n + 1 \in 1..(n + 1) /\ n + 1 \notin 1..n /\ 1..n \subseteq 1..(n + 1)
  BY <1>1
<1>4. Range(t) = Range(seq) \cup {e}
  BY <1>1, <1>2, <1>3 DEF Range
<1>5. ASSUME IsInjective(t) PROVE IsInjective(seq) /\ e \notin Range(seq)
  BY <1>1, <1>3, <1>5 DEF IsInjective, Range
<1>6. ASSUME IsInjective(seq), e \notin Range(seq) PROVE IsInjective(t)
  <2> SUFFICES ASSUME NEW a \in 1..(n + 1), NEW b \in 1..(n + 1), t[a] = t[b] PROVE a = b
    BY <1>1 DEF IsInjective
  <2>1. \A k \in 1..n : t[k] # e
    BY <1>1, <1>6 DEF Range
  <2>2. a \in 1..n /\ b \in 1..n => a = b
    BY <1>1, <1>6 DEF IsInjective
  <2> QED
    BY <1>1, <1>2, <2>1, <2>2
<1> QED
  BY <1>4, <1>5, <1>6 DEF t

LEMMA RangeEmpty == Range(<<>>) = {} /\ IsInjective(<<>>)
<1>1. Len(<<>>) = 0 /\ <<>> \in Seq({})
  BY EmptySeq
<1>2. DOMAIN <<>> = {}
  BY <1>1, LenProperties
<1> QED
  BY <1>2 DEF Range, IsInjective

LEMMA EmptyRange ==
    ASSUME NEW S, NEW seq \in Seq(S), Range(seq) = {}
    PROVE  seq = <<>>
<1>1. \A k \in 1..Len(seq) : FALSE
  BY LenProperties DEF Range
<1>2. Len(seq) = 0
  BY <1>1, LenProperties
<1> QED
  BY <1>2, EmptySeq

LEMMA OnlyFacts ==
    ASSUME NEW S, NEW seq \in Seq(S), NEW wanted
    PROVE  /\ Range(Only(seq, wanted)) = Range(seq) \cap wanted
           /\ IsInjective(seq) => IsInjective(Only(seq, wanted))
<1> DEFINE Good == {s \in Seq(S) :
                      /\ Range(Only(s, wanted)) = Range(s) \cap wanted
                      /\ IsInjective(s) => IsInjective(Only(s, wanted))}
<1>1. <<>> \in Good
  BY EmptySeq, OnlyEmpty, RangeEmpty
<1>2. ASSUME NEW s \in Seq(S), NEW e \in S, s \in Good PROVE Append(s, e) \in Good
  <2> DEFINE o == Only(s, wanted)
  <2>1. o \in Seq(S) /\ Append(s, e) \in Seq(S)
    BY OnlyType, AppendProperties
  <2>2. Range(o) = Range(s) \cap wanted /\ (IsInjective(s) => IsInjective(o))
    BY <1>2
  <2>3. Only(Append(s, e), wanted) = IF e \in wanted THEN Append(o, e) ELSE o
    BY OnlyAppend
  <2> HIDE DEF o
  <2>4. /\ Range(Append(s, e)) = Range(s) \cup {e}
        /\ IsInjective(Append(s, e)) <=> IsInjective(s) /\ e \notin Range(s)
    BY RangeAppend
  <2>5. /\ Range(Append(o, e)) = Range(o) \cup {e}
        /\ IsInjective(Append(o, e)) <=> IsInjective(o) /\ e \notin Range(o)
    BY <2>1, RangeAppend
  <2>6. Range(Only(Append(s, e), wanted)) = Range(Append(s, e)) \cap wanted
    BY <2>2, <2>3, <2>4, <2>5
  <2>7. IsInjective(Append(s, e)) => IsInjective(Only(Append(s, e), wanted))
    BY <2>2, <2>3, <2>4, <2>5
  <2> QED
    BY <2>1, <2>6, <2>7
<1> HIDE DEF Good
<1>3. Seq(S) \subseteq Good
  BY <1>1, <1>2, ListInduction
<1> QED
  BY <1>3 DEF Good

LEMMA OnceFacts ==
    ASSUME NEW S, NEW seq \in Seq(S)
    PROVE  /\ Range(Once(seq)) = Range(seq) /\ IsInjective(Once(seq))
           /\ IsInjective(seq) => Once(seq) = seq
           /\ \A wanted : Once(Only(seq, wanted)) = Only(Once(seq), wanted)
<1> DEFINE Good == {s \in Seq(S) :
                      /\ Range(Once(s)) = Range(s) /\ IsInjective(Once(s))
                      /\ IsInjective(s) => Once(s) = s
                      /\ \A wanted : Once(Only(s, wanted)) = Only(Once(s), wanted)}
<1>1. <<>> \in Good
  BY EmptySeq, OnlyEmpty, OnceEmpty, RangeEmpty
<1>2. ASSUME NEW s \in Seq(S), NEW e \in S, s \in Good PROVE Append(s, e) \in Good
  <2> DEFINE o == Once(s)
  <2>1. o \in Seq(S) /\ Append(s, e) \in Seq(S)
    BY OnceType, AppendProperties
  <2>2. /\ Range(o) = Range(s) /\ IsInjective(o) /\ (IsInjective(s) => o = s)
        /\ \A wanted : Once(Only(s, wanted)) = Only(o, wanted)
    BY <1>2
  <2>3. Once(Append(s, e)) = IF e \in Range(s) THEN o ELSE Append(o, e)
    BY OnceAppend
  <2> HIDE DEF o
  <2>4. /\ Range(Append(s, e)) = Range(s) \cup {e}
        /\ IsInjective(Append(s, e)) <=> IsInjective(s) /\ e \notin Range(s)
    BY RangeAppend
  <2>5. /\ Range(Append(o, e)) = Range(o) \cup {e}
        /\ IsInjective(Append(o, e)) <=> IsInjective(o) /\ e \notin Range(o)
    BY <2>1, RangeAppend
  <2>6. Range(Once(Append(s, e))) = Range(Append(s, e)) /\ IsInjective(Once(Append(s, e)))
    BY <2>2, <2>3, <2>4, <2>5
  <2>7. IsInjective(Append(s, e)) => Once(Append(s, e)) = Append(s, e)
    BY <2>2, <2>3, <2>4
  <2>8. ASSUME NEW wanted
        PROVE  Once(Only(Append(s, e), wanted)) = Only(Once(Append(s, e)), wanted)
    <3> DEFINE p == Only(s, wanted)
    <3>1. p \in Seq(S) /\ Range(p) = Range(s) \cap wanted /\ Once(p) = Only(o, wanted)
      BY <2>2, OnlyType, OnlyFacts
    <3>2. Only(Append(s, e), wanted) = IF e \in wanted THEN Append(p, e) ELSE p
      BY OnlyAppend
    <3>3. Only(Append(o, e), wanted) = IF e \in wanted THEN Append(Only(o, wanted), e) ELSE Only(o, wanted)
      BY <2>1, OnlyAppend
    <3> HIDE DEF p
    <3>4. Once(Append(p, e)) = IF e \in Range(p) THEN Once(p) ELSE Append(Once(p), e)
      BY <3>1, OnceAppend
    <3>5. CASE e \in wanted
      BY <2>3, <3>1, <3>2, <3>3, <3>4, <3>5
    <3>6. CASE e \notin wanted
      BY <2>3, <3>1, <3>2, <3>3, <3>6
    <3> QED
      BY <3>5, <3>6
  <2> QED
    BY <2>1, <2>6, <2>7, <2>8
<1> HIDE DEF Good
<1>3. Seq(S) \subseteq Good
  BY <1>1, <1>2, ListInduction
<1> QED
  BY <1>3 DEF Good

LEMMA OnlyConcat ==
    ASSUME NEW S, NEW s \in Seq(S), NEW t \in Seq(S), NEW wanted
    PROVE  Only(s \o t, wanted) = Only(s, wanted) \o Only(t, wanted)
<1> DEFINE Good == {u \in Seq(S) : Only(s \o u, wanted) = Only(s, wanted) \o Only(u, wanted)}
<1>0. Only(s, wanted) \in Seq(S)
  BY OnlyType
<1>1. <<>> \in Good
  BY <1>0, EmptySeq, OnlyEmpty, ConcatEmptySeq
<1>2. ASSUME NEW u \in Seq(S), NEW e \in S, u \in Good PROVE Append(u, e) \in Good
  <2>1. /\ s \o u \in Seq(S) /\ Append(u, e) \in Seq(S) /\ Only(u, wanted) \in Seq(S)
        /\ Only(s \o u, wanted) = Only(s, wanted) \o Only(u, wanted)
    BY <1>2, ConcatProperties, AppendProperties, OnlyType
  <2>2. s \o Append(u, e) = Append(s \o u, e)
    <3>1. Append(u, e) = u \o <<e>> /\ Append(s \o u, e) = (s \o u) \o <<e>> /\ <<e>> \in Seq(S)
      BY <2>1, AppendIsConcat
    <3> QED
      BY <3>1, ConcatAssociative
  <2>3. Only(s, wanted) \o Append(Only(u, wanted), e) = Append(Only(s, wanted) \o Only(u, wanted), e)
    <3> DEFINE a == Only(s, wanted)
               b == Only(u, wanted)
    <3>1. a \in Seq(S) /\ b \in Seq(S) /\ a \o b \in Seq(S)
      BY <1>0, <2>1, ConcatProperties
    <3> HIDE DEF a, b
    <3>2. Append(b, e) = b \o <<e>> /\ Append(a \o b, e) = (a \o b) \o <<e>> /\ <<e>> \in Seq(S)
      BY <3>1, AppendIsConcat
    <3>3. a \o Append(b, e) = Append(a \o b, e)
      BY <3>1, <3>2, ConcatAssociative
    <3> QED
      BY <3>3 DEF a, b
  <2>4. Only(Append(s \o u, e), wanted)
          = IF e \in wanted THEN Append(Only(s \o u, wanted), e) ELSE Only(s \o u, wanted)
    <3> DEFINE c == s \o u
    <3>1. c \in Seq(S)
      BY <2>1
    <3> HIDE DEF c
    <3>2. Only(Append(c, e), wanted) = IF e \in wanted THEN Append(Only(c, wanted), e) ELSE Only(c, wanted)
      BY <3>1, OnlyAppend
    <3> QED
      BY <3>2 DEF c
  <2>5. Only(Append(u, e), wanted)
          = IF e \in wanted THEN Append(Only(u, wanted), e) ELSE Only(u, wanted)
    BY OnlyAppend
  <2> QED
    BY <2>1, <2>2, <2>3, <2>4, <2>5
<1> HIDE DEF Good
<1>3. Seq(S) \subseteq Good
  BY <1>1, <1>2, ListInduction
<1> QED
  BY <1>3 DEF Good

LEMMA InjectiveConcat ==
    ASSUME NEW S, NEW s \in Seq(S), NEW t \in Seq(S), Range(s) \cap Range(t) = {}
    PROVE  IsInjective(s \o t) <=> IsInjective(s) /\ IsInjective(t)
<1> DEFINE m == Len(s)
           n == Len(t)
           u == s \o t
<1>1. /\ m \in Nat /\ n \in Nat /\ u \in Seq(S) /\ Len(u) = m + n
      /\ \A i \in 1..(m + n) : u[i] = IF i <= m THEN s[i] ELSE t[i - m]
      /\ DOMAIN s = 1..m /\ DOMAIN t = 1..n
  BY ConcatProperties, LenProperties
<1>2. DOMAIN u = 1..(m + n)
  BY <1>1, LenProperties
<1> HIDE DEF m, n, u
<1>3. \A i \in 1..m : i \in 1..(m + n) /\ u[i] = s[i]
  BY <1>1
<1>4. \A i \in 1..n : i + m \in 1..(m + n) /\ u[i + m] = t[i]
  <2> TAKE i \in 1..n
  <2>1. i + m \in 1..(m + n) /\ ~(i + m <= m) /\ (i + m) - m = i
    BY <1>1
  <2> QED
    BY <1>1, <2>1
<1>5. ASSUME IsInjective(u) PROVE IsInjective(s) /\ IsInjective(t)
  <2>1. \A a, b \in 1..m : s[a] = s[b] => a = b
    BY <1>2, <1>3, <1>5 DEF IsInjective
  <2>2. \A a, b \in 1..n : t[a] = t[b] => a + m = b + m
    BY <1>2, <1>4, <1>5 DEF IsInjective
  <2>3. \A a, b \in 1..n : a + m = b + m => a = b
    BY <1>1
  <2> QED
    BY <1>1, <2>1, <2>2, <2>3 DEF IsInjective
<1>6. ASSUME IsInjective(s), IsInjective(t) PROVE IsInjective(u)
  <2> SUFFICES ASSUME NEW a \in 1..(m + n), NEW b \in 1..(m + n), u[a] = u[b] PROVE a = b
    BY <1>2 DEF IsInjective
  <2>1. \A i \in 1..(m + n) : IF i <= m THEN i \in 1..m /\ u[i] = s[i]
                              ELSE i - m \in 1..n /\ u[i] = t[i - m]
    BY <1>1
  <2>2. \A i \in 1..m, j \in 1..n : s[i] # t[j]
    BY <1>1 DEF Range
  <2>3. CASE a <= m /\ b <= m
    BY <1>1, <1>6, <2>1, <2>3 DEF IsInjective
  <2>4. CASE ~(a <= m) /\ ~(b <= m)
    <3>1. t[a - m] = t[b - m] /\ a - m \in 1..n /\ b - m \in 1..n
      BY <2>1, <2>4
    <3>2. a - m = b - m
      BY <1>1, <1>6, <3>1 DEF IsInjective
    <3> QED
      BY <1>1, <3>2
  <2>5. CASE (a <= m /\ ~(b <= m)) \/ (~(a <= m) /\ b <= m)
    BY <2>1, <2>2, <2>5
  <2> QED
    BY <2>3, <2>4, <2>5
<1> QED
  BY <1>5, <1>6 DEF u

LEMMA InjectiveLength ==
    ASSUME NEW S, NEW seq \in Seq(S), IsInjective(seq)
    PROVE  IsFiniteSet(Range(seq)) /\ Cardinality(Range(seq)) = Len(seq)
<1> DEFINE Good == {s \in Seq(S) : IsInjective(s) =>
                      IsFiniteSet(Range(s)) /\ Cardinality(Range(s)) = Len(s)}
<1>1. <<>> \in Good
  BY EmptySeq, RangeEmpty, FS_EmptySet
<1>2. ASSUME NEW s \in Seq(S), NEW e \in S, s \in Good PROVE Append(s, e) \in Good
  <2>1. Append(s, e) \in Seq(S) /\ Len(Append(s, e)) = Len(s) + 1
    BY AppendProperties
  <2>2. /\ Range(Append(s, e)) = Range(s) \cup {e}
        /\ IsInjective(Append(s, e)) <=> IsInjective(s) /\ e \notin Range(s)
    BY RangeAppend
  <2>3. ASSUME IsInjective(s), e \notin Range(s)
        PROVE  IsFiniteSet(Range(s) \cup {e}) /\ Cardinality(Range(s) \cup {e}) = Len(s) + 1
    <3>1. IsFiniteSet(Range(s)) /\ Cardinality(Range(s)) = Len(s)
      BY <1>2, <2>3
    <3> QED
      BY <2>3, <3>1, FS_AddElement
  <2> QED
    BY <2>1, <2>2, <2>3
<1> HIDE DEF Good
<1>3. Seq(S) \subseteq Good
  BY <1>1, <1>2, ListInduction
<1> QED
  BY <1>3 DEF Good

-----------------------------------------------------------------------------
(* The children of a node.                                                 *)
Parts    == Known \cup Containers
Distinct == \A list \in AllLists : IsInjective(list)
ListedKnown == Range(Listed) \cap Known

NodeTypes ==
    /\ node \in {"Page", "Outline", "OutlineElement"}
    /\ props \in Properties
    /\ inner \in [Containers \cup Paragraphs -> Inner]
    /\ ownTags \in TagLists
    /\ step # "done" => tags \in [Files -> TagLists]
    /\ step \in {"merge", "scan", "expand", "embed", "propagate", "done"}
    /\ at \in Nat \ {0}
    /\ children \in Seq(Parts) /\ extra \in Seq(Parts) /\ best.refs \in Seq(Parts)
    /\ best.refs = <<>> \/ best.refs \in AllLists

(* Of what the two child lists refer to nothing is lost; what the scan and *)
(* the expansion add is nothing of it.                                     *)
Keeps(seq) == Once(Only(seq, ListedKnown)) = Only(Listed, ListedKnown)
Passed    == {children[j] : j \in 1..(at - 1)}

ElementsInv ==
    /\ step = "merge" => children = <<>> /\ extra = <<>> /\ at = 1
    /\ step \in {"scan", "expand"} =>
         node = "Outline" /\ Keeps(children) /\ (Distinct => IsInjective(children))
    /\ step = "scan" => extra = <<>>
    /\ step = "expand" =>
         /\ at <= Len(children) + 1
         /\ Only(extra, ListedKnown) = Only(SubSeq(children, 1, at - 1), ListedKnown)
         /\ Distinct =>
              /\ IsInjective(Elements(extra))
              /\ Range(extra) \cap Range(children) \cap OutlineElements \subseteq Passed
    /\ step = "done" /\ node # "OutlineElement" =>
         Keeps(children) /\ (Distinct => IsInjective(Elements(children)))

(* The objects embedded in some children that are none of these.           *)
EmbeddedIn(those) ==
    (UNION {Range(inner[p]) : p \in those \cap Paragraphs}) \ Range(Refs("ContentChildNodes"))

EmbedInv ==
    /\ step \in {"embed", "propagate"} => node = "OutlineElement"
    /\ step = "embed" =>
         /\ children = Refs("ContentChildNodes")
         /\ at <= Len(children) + 1
         /\ IsInjective(extra) /\ Range(extra) = EmbeddedIn(Passed)
    /\ step \in {"propagate", "done"} /\ node = "OutlineElement" =>
         LET content == Refs("ContentChildNodes") IN
         /\ SubSeq(children, 1, Len(content)) = content
         /\ Len(children) = Len(content) + Cardinality(EmbeddedIn(Range(content)))
         /\ Range(children) = Range(content) \cup EmbeddedIn(Range(content))
    /\ step = "done" /\ node = "OutlineElement" =>
         \A f \in Range(children) \cap Files :
           IsInjective(tags[f]) /\ Range(ownTags) \subseteq Range(tags[f])

NodeInv == NodeTypes /\ ElementsInv /\ EmbedInv

LEMMA RefsIs ==
    ASSUME props \in Properties, NEW pid
    PROVE  /\ Refs(pid) = <<>> \/ Refs(pid) \in AllLists
           /\ Refs(pid) \in Seq(Parts)
<1> DEFINE I == {i \in 1..Len(props) : props[i].pid = pid}
<1>1. props \in Seq(Range(props)) /\ \A i \in DOMAIN props : props[i].refs \in Seq(Parts)
  BY PropertiesHaveReferences DEF Parts
<1>2. DOMAIN props = 1..Len(props) /\ Len(props) \in Nat
  BY <1>1, LenProperties
<1>3. I \subseteq Nat
  OBVIOUS
<1>4. CASE I = {}
  <2>1. SelectInSeq(props, LAMBDA prop : prop.pid = pid) = 0
    BY <1>4 DEF SelectInSeq
  <2>2. Refs(pid) = <<>>
    BY <2>1 DEF Refs
  <2> QED
    BY <2>2, EmptySeq
<1>5. CASE I # {}
  <2>1. \E x \in I : \A y \in I : x <= y
    <3> HIDE DEF I
    <3> QED
      BY <1>3, <1>5, LeastNatural
  <2>2. SelectInSeq(props, LAMBDA prop : prop.pid = pid) = Min(I)
    BY <1>5 DEF SelectInSeq
  <2>3. Min(I) \in I
    BY <2>1 DEF Min
  <2>4. PICK i \in 1..Len(props) : i = Min(I)
    BY <2>3
  <2>5. Refs(pid) = props[i].refs
    <3>1. i # 0
      BY <1>2
    <3> HIDE DEF I
    <3> QED
      BY <2>2, <2>4, <3>1 DEF Refs
  <2> QED
    BY <1>1, <1>2, <2>5 DEF AllLists
<1> QED
  BY <1>4, <1>5

LEMMA MergedIs ==
    ASSUME props \in Properties
    PROVE  /\ Merged \in Seq(Parts) /\ Listed \in Seq(Parts) /\ IsInjective(Listed)
           /\ Keeps(Merged)
           /\ Distinct => IsInjective(Merged)
<1> DEFINE E == Refs("ElementChildNodes")
           C == Refs("ContentChildNodes")
<1>1. /\ E \in Seq(Parts) /\ C \in Seq(Parts)
      /\ E = <<>> \/ E \in AllLists
  BY RefsIs
<1>2. Merged = IF C = <<>> THEN E ELSE Once(E \o C)
  BY DEF Merged
<1>3. Listed = Once(E \o C)
  BY DEF Listed
<1>4. PICK W : W = ListedKnown
  OBVIOUS
<1> HIDE DEF E, C
<1>5. PICK c : c = E \o C /\ c \in Seq(Parts)
  BY <1>1, ConcatProperties
<1>6. /\ Once(c) \in Seq(Parts) /\ IsInjective(Once(c))
      /\ Once(Only(c, W)) = Only(Once(c), W)
  BY <1>5, OnceType, OnceFacts
<1>7. IsInjective(Only(Once(c), W)) /\ Only(Once(c), W) \in Seq(Parts)
  BY <1>6, OnlyType, OnlyFacts
<1>8. Once(Only(Once(c), W)) = Only(Once(c), W)
  BY <1>7, OnceFacts
<1>9. C = <<>> => c = E
  BY <1>1, <1>5, ConcatEmptySeq
<1>10. Keeps(Merged)
  BY <1>2, <1>3, <1>4, <1>5, <1>6, <1>8, <1>9 DEF Keeps
<1>11. Distinct => IsInjective(Merged)
  BY <1>1, <1>2, <1>5, <1>6, RangeEmpty DEF Distinct
<1> QED
  BY <1>1, <1>2, <1>3, <1>5, <1>6, <1>10, <1>11

(* Whatever keeps them has them all.                                       *)
LEMMA ListedAreThere ==
    ASSUME props \in Properties, NEW seq \in Seq(Parts), Keeps(seq)
    PROVE  ListedKnown \subseteq Range(seq)
<1>1. PICK W : W = ListedKnown
  OBVIOUS
<1>2. Listed \in Seq(Parts)
  BY MergedIs
<1>3. /\ Only(seq, W) \in Seq(Parts)
      /\ Range(Only(seq, W)) = Range(seq) \cap W
      /\ Range(Once(Only(seq, W))) = Range(Only(seq, W))
  BY OnlyType, OnlyFacts, OnceFacts
<1>4. Range(Only(Listed, W)) = Range(Listed) \cap W
  BY <1>2, OnlyFacts
<1> QED
  BY <1>1, <1>3, <1>4 DEF Keeps, ListedKnown

LEMMA SameInput ==
    ASSUME UNCHANGED Input
    PROVE  /\ UNCHANGED <<node, props, inner, ownTags>>
           /\ \A pid : Refs(pid)' = Refs(pid)
           /\ AllLists' = AllLists /\ Listed' = Listed /\ ListedKnown' = ListedKnown
           /\ Distinct' <=> Distinct
           /\ Merged' = Merged
           /\ \A those : EmbeddedIn(those)' = EmbeddedIn(those)
<1>1. UNCHANGED <<node, props, inner, ownTags>>
  BY DEF Input
<1>2. \A pid : Refs(pid)' = Refs(pid)
  BY <1>1 DEF Refs, SelectInSeq
<1>3. AllLists' = AllLists
  BY <1>1 DEF AllLists
<1>4. Listed' = Listed /\ Merged' = Merged
  BY <1>2 DEF Listed, Merged
<1>5. \A those : EmbeddedIn(those)' = EmbeddedIn(those)
  BY <1>1, <1>2 DEF EmbeddedIn
<1> QED
  BY <1>1, <1>2, <1>3, <1>4, <1>5 DEF ListedKnown, Distinct

LEMMA NodeStart == ASSUME NodeInit PROVE NodeInv
<1>1. <<>> \in Seq(Parts) /\ best.refs = <<>> /\ Len(<<>>) = 0
  BY EmptySeq DEF NodeInit
<1> QED
  BY <1>1 DEF NodeInit, NodeInv, NodeTypes, ElementsInv, EmbedInv

LEMMA NodeMerge == ASSUME NodeInv, Merge PROVE NodeInv'
<1>1. /\ step = "merge" /\ node # "OutlineElement" /\ UNCHANGED Input
      /\ children' = Merged /\ UNCHANGED <<tags, at, best, extra>>
      /\ step' = IF node = "Page" THEN "done" ELSE "scan"
  BY DEF Merge, Input
<1>2. NodeTypes /\ props \in Properties /\ extra = <<>>
  BY <1>1 DEF NodeInv, NodeTypes, ElementsInv
<1>3. /\ Merged \in Seq(Parts) /\ Keeps(Merged)
      /\ Distinct => IsInjective(Merged)
  BY <1>2, MergedIs
<1>4. Distinct => IsInjective(Elements(Merged))
  BY <1>3, OnlyFacts DEF Elements
<1>5. Keeps(children)'
  BY <1>1, <1>3, SameInput DEF Keeps
<1>6. Distinct' => IsInjective(children)' /\ IsInjective(Elements(children))'
  BY <1>1, <1>3, <1>4, SameInput DEF Elements
<1>7. NodeTypes'
  BY <1>1, <1>2, <1>3, SameInput DEF NodeTypes
<1>8. ElementsInv'
  BY <1>1, <1>2, <1>5, <1>6, SameInput DEF ElementsInv, NodeTypes
<1>9. EmbedInv'
  BY <1>1, <1>2, SameInput DEF EmbedInv, NodeTypes
<1> QED
  BY <1>7, <1>8, <1>9 DEF NodeInv

LEMMA NodeScan == ASSUME NodeInv, ScanProperty PROVE NodeInv'
<1>1. /\ step = "scan" /\ at <= Len(props) /\ UNCHANGED Input
      /\ UNCHANGED <<tags, step, children, extra>> /\ at' = at + 1
      /\ best'.refs \in {best.refs, props[at].refs}
  BY DEF ScanProperty, Input
<1>2. NodeTypes /\ props \in Properties /\ at \in Nat \ {0}
  BY DEF NodeInv, NodeTypes
<1>3. props[at].refs \in Seq(Parts) /\ props[at].refs \in AllLists
  <2>1. props \in Seq(Range(props)) /\ \A i \in DOMAIN props : props[i].refs \in Seq(Parts)
    BY <1>2, PropertiesHaveReferences DEF Parts
  <2>2. at \in DOMAIN props
    BY <1>1, <1>2, <2>1, LenProperties
  <2> QED
    BY <2>1, <2>2 DEF AllLists
<1>4. NodeTypes'
  BY <1>1, <1>2, <1>3, SameInput DEF NodeTypes
<1>5. ElementsInv'
  BY <1>1, SameInput DEF NodeInv, ElementsInv, Keeps
<1>6. EmbedInv'
  BY <1>1 DEF NodeInv, EmbedInv
<1> QED
  BY <1>4, <1>5, <1>6 DEF NodeInv

LEMMA NodeAddBest == ASSUME NodeInv, AddBest PROVE NodeInv'
<1> DEFINE added == Unseen(Elements(best.refs), Range(children))
<1>1. /\ step = "scan" /\ UNCHANGED Input /\ step' = "expand" /\ at' = 1
      /\ children' = children \o added /\ UNCHANGED <<tags, best, extra>>
  BY DEF AddBest, Input
<1>2. /\ NodeTypes /\ props \in Properties /\ extra = <<>> /\ node = "Outline"
      /\ Keeps(children) /\ (Distinct => IsInjective(children))
      /\ children \in Seq(Parts) /\ best.refs \in Seq(Parts)
      /\ best.refs = <<>> \/ best.refs \in AllLists
  BY <1>1 DEF NodeInv, NodeTypes, ElementsInv
<1>3. PICK els : /\ els = Elements(best.refs) /\ els \in Seq(Parts)
                 /\ Distinct => IsInjective(els)
  <2>1. Distinct => IsInjective(best.refs)
    BY <1>2, RangeEmpty DEF Distinct
  <2> QED
    BY <1>2, <2>1, OnlyType, OnlyFacts DEF Elements
<1>4. PICK new : /\ new = added /\ new \in Seq(Parts)
                 /\ Range(new) \cap Range(children) = {}
                 /\ Distinct => IsInjective(new)
  <2>1. added = Only(els, Range(els) \ Range(children))
    BY <1>3 DEF Unseen
  <2>2. /\ Only(els, Range(els) \ Range(children)) \in Seq(Parts)
        /\ Range(Only(els, Range(els) \ Range(children))) = Range(els) \cap (Range(els) \ Range(children))
        /\ IsInjective(els) => IsInjective(Only(els, Range(els) \ Range(children)))
    BY <1>3, OnlyType, OnlyFacts
  <2> QED
    BY <1>3, <2>1, <2>2
<1> HIDE DEF added
<1>5. children' \in Seq(Parts) /\ (Distinct => IsInjective(children'))
  <2>1. children \o new \in Seq(Parts)
    BY <1>2, <1>4, ConcatProperties
  <2>2. IsInjective(children \o new) <=> IsInjective(children) /\ IsInjective(new)
    BY <1>2, <1>4, InjectiveConcat
  <2> QED
    BY <1>1, <1>2, <1>4, <2>1, <2>2
<1>6. Keeps(children')
  <2>1. PICK W : W = ListedKnown /\ W \subseteq Range(children)
    BY <1>2, ListedAreThere
  <2>2. Only(children \o new, W) = Only(children, W) \o Only(new, W)
    BY <1>2, <1>4, OnlyConcat
  <2>3. Only(new, W) = <<>>
    <3>1. Range(Only(new, W)) = {} /\ Only(new, W) \in Seq(Parts)
      BY <1>4, <2>1, OnlyType, OnlyFacts
    <3> QED
      BY <3>1, EmptyRange
  <2>4. Only(children, W) \in Seq(Parts)
    BY <1>2, OnlyType
  <2>5. Only(children \o new, W) = Only(children, W)
    BY <2>2, <2>3, <2>4, ConcatEmptySeq
  <2> QED
    BY <1>1, <1>2, <1>4, <2>1, <2>5 DEF Keeps
<1>7. Keeps(children)'
  BY <1>1, <1>6, SameInput DEF Keeps
<1>8. SubSeq(children, 1, at - 1)' = <<>> /\ 1 <= Len(children') + 1
  <2>1. at' - 1 = 0 /\ Len(children') \in Nat
    BY <1>1, <1>5, LenProperties
  <2>2. SubSeq(children', 1, 0) = <<>>
    BY SubSeqEmpty
  <2> QED
    BY <2>1, <2>2
<1>9. NodeTypes'
  BY <1>1, <1>2, <1>5, SameInput DEF NodeTypes
<1>10. /\ Only(extra, ListedKnown)' = Only(SubSeq(children, 1, at - 1), ListedKnown)'
       /\ IsInjective(Elements(extra))' /\ Range(extra)' = {}
  BY <1>1, <1>2, <1>8, OnlyEmpty, RangeEmpty DEF Elements
<1>11. ElementsInv'
  BY <1>1, <1>2, <1>5, <1>7, <1>8, <1>10, SameInput DEF ElementsInv
<1>12. EmbedInv'
  BY <1>1, <1>2, SameInput DEF EmbedInv
<1> QED
  BY <1>9, <1>11, <1>12 DEF NodeInv

(* An expansion is a list of outline elements in a container, all new.     *)
LEMMA ExpansionIs ==
    ASSUME NodeTypes, NEW child, Expansion(child) # <<>>
    PROVE  /\ child \in Containers
           /\ Expansion(child) \in Seq(Parts)
           /\ Range(Expansion(child)) \cap (Range(children) \cup Range(extra)) = {}
           /\ Distinct => IsInjective(Expansion(child))
<1> DEFINE list == IF child \in Containers THEN inner[child] ELSE <<>>
           seen == Range(children) \cup Range(extra)
<1>1. /\ Hits(list) >= 2
      /\ Expansion(child) = Unseen(Elements(list), seen)
  BY DEF Expansion
<1>2. child \in Containers
  <2>1. Hits(<<>>) = 0
    BY OnlyEmpty, EmptySeq DEF Hits, Elements
  <2> QED
    BY <1>1, <2>1
<1>3. inner[child] \in Seq(Parts) /\ inner[child] \in AllLists
  BY <1>2, InnerAreReferences DEF NodeTypes, Parts, AllLists
<1>4. PICK els : /\ els = Elements(list) /\ els \in Seq(Parts)
                 /\ Distinct => IsInjective(els)
  <2>1. list = inner[child]
    BY <1>2
  <2>2. /\ Only(inner[child], OutlineElements) \in Seq(Parts)
        /\ IsInjective(inner[child]) => IsInjective(Only(inner[child], OutlineElements))
    BY <1>3, OnlyType, OnlyFacts
  <2>3. Distinct => IsInjective(inner[child])
    BY <1>3 DEF Distinct
  <2> HIDE DEF list
  <2> QED
    BY <2>1, <2>2, <2>3 DEF Elements
<1> HIDE DEF list
<1>5. PICK W : W = Range(els) \ seen
  OBVIOUS
<1>6. Expansion(child) = Only(els, W)
  BY <1>1, <1>4, <1>5 DEF Unseen
<1>7. /\ Only(els, W) \in Seq(Parts) /\ Range(Only(els, W)) = Range(els) \cap W
      /\ IsInjective(els) => IsInjective(Only(els, W))
  BY <1>4, OnlyType, OnlyFacts
<1> QED
  BY <1>2, <1>4, <1>5, <1>6, <1>7

LEMMA SubSeqGrows ==
    ASSUME NEW S, NEW seq \in Seq(S), NEW k \in 1..Len(seq)
    PROVE  /\ SubSeq(seq, 1, k) = Append(SubSeq(seq, 1, k - 1), seq[k])
           /\ SubSeq(seq, 1, k - 1) \in Seq(S) /\ seq[k] \in S
<1>1. Len(seq) \in Nat /\ \A i \in 1..Len(seq) : seq[i] \in S
  BY LenProperties, ElementOfSeq
<1>2. \A i \in 1..(k - 1) : seq[i] \in S
  BY <1>1
<1>3. SubSeq(seq, 1, k - 1) \in Seq(S)
  BY <1>2, SubSeqProperties
<1>4. seq[k] \in S /\ 1 \in 1..Len(seq) /\ k \in 1..Len(seq)
  BY <1>1
<1>5. SubSeq(seq, 1, k) = SubSeq(seq, 1, k - 1) \o <<seq[k]>>
  BY <1>4, SubSeqRecursiveSecond
<1> QED
  BY <1>3, <1>4, <1>5, AppendIsConcat

LEMMA NodeExpand == ASSUME NodeInv, ExpandChild PROVE NodeInv'
<1>1. /\ step = "expand" /\ at <= Len(children) /\ UNCHANGED Input
      /\ UNCHANGED <<tags, step, children, best>> /\ at' = at + 1
      /\ extra' = extra \o (IF Expansion(children[at]) = <<>> THEN <<children[at]>>
                            ELSE Expansion(children[at]))
  BY DEF ExpandChild, Input
<1>2. /\ NodeTypes /\ props \in Properties /\ at \in 1..Len(children) /\ Len(children) \in Nat
      /\ children \in Seq(Parts) /\ extra \in Seq(Parts)
      /\ Keeps(children) /\ (Distinct => IsInjective(children))
      /\ Only(extra, ListedKnown) = Only(SubSeq(children, 1, at - 1), ListedKnown)
      /\ Distinct => /\ IsInjective(Elements(extra))
                     /\ Range(extra) \cap Range(children) \cap OutlineElements \subseteq Passed
  BY <1>1, LenProperties DEF NodeInv, NodeTypes, ElementsInv
<1>3. PICK c : c = children[at] /\ c \in Parts /\ c \in Range(children)
  BY <1>2, ElementOfSeq, LenProperties DEF Range
<1>4. PICK W : W = ListedKnown /\ W \subseteq Range(children) /\ W \subseteq Known
  BY <1>2, ListedAreThere DEF ListedKnown
<1>5. PICK sub : sub = SubSeq(children, 1, at - 1) /\ sub \in Seq(Parts)
  BY <1>2, SubSeqGrows
<1>6. SubSeq(children, 1, at) = Append(sub, c)
  BY <1>2, <1>3, <1>5, SubSeqGrows
<1>b. \A V : /\ Only(Append(extra, c), V) = IF c \in V THEN Append(Only(extra, V), c) ELSE Only(extra, V)
            /\ Only(Append(sub, c), V) = IF c \in V THEN Append(Only(sub, V), c) ELSE Only(sub, V)
  <2> TAKE V
  <2>1. c \in Parts /\ sub \in Seq(Parts)
    BY <1>3, <1>5
  <2>2. PICK o : o = extra /\ o \in Seq(Parts)
    BY <1>2
  <2>3. o \in Seq(Parts)
    BY <2>2
  <2>4. Only(Append(o, c), V) = IF c \in V THEN Append(Only(o, V), c) ELSE Only(o, V)
    BY <2>1, <2>3, OnlyAppend
  <2>5. Only(Append(sub, c), V) = IF c \in V THEN Append(Only(sub, V), c) ELSE Only(sub, V)
    BY <2>1, OnlyAppend
  <2> QED
    BY <2>2, <2>4, <2>5
<1>c. \A x \in Seq(Parts) : \A V : Only(extra \o x, V) = Only(extra, V) \o Only(x, V)
  <2>1. PICK o : o = extra /\ o \in Seq(Parts)
    BY <1>2
  <2>2. \A x \in Seq(Parts) : \A V : Only(o \o x, V) = Only(o, V) \o Only(x, V)
    BY <2>1, OnlyConcat
  <2> QED
    BY <2>1, <2>2
<1>7. Only(SubSeq(children, 1, at), W) = IF c \in W THEN Append(Only(extra, W), c) ELSE Only(extra, W)
  BY <1>2, <1>4, <1>5, <1>6, <1>b
<1>8. Passed' = Passed \cup {c}
  <2>1. 1..((at + 1) - 1) = 1..(at - 1) \cup {at}
    BY <1>2
  <2> QED
    BY <1>1, <1>3, <2>1 DEF Passed
<1>9. /\ extra' \in Seq(Parts) /\ Only(extra', W) = Only(SubSeq(children, 1, at), W)
      /\ Distinct => /\ IsInjective(Elements(extra'))
                     /\ Range(extra') \cap Range(children) \cap OutlineElements \subseteq Passed \cup {c}
  <2>1. CASE Expansion(c) = <<>>
    <3>1. extra' = Append(extra, c) /\ extra' \in Seq(Parts)
      BY <1>1, <1>2, <1>3, <2>1, AppendIsConcat, AppendProperties
    <3>2. Only(extra', W) = Only(SubSeq(children, 1, at), W)
      BY <1>7, <1>b, <3>1
    <3>3. Range(extra') = Range(extra) \cup {c}
      BY <1>2, <1>3, <3>1, RangeAppend
    <3>4. ASSUME Distinct PROVE IsInjective(Elements(extra'))
      <4>1. Elements(extra') = IF c \in OutlineElements THEN Append(Elements(extra), c) ELSE Elements(extra)
        BY <1>b, <3>1 DEF Elements
      <4>2. PICK e : e = Elements(extra) /\ e \in Seq(Parts) /\ Range(e) = Range(extra) \cap OutlineElements
        BY <1>2, OnlyType, OnlyFacts DEF Elements
      <4>3. c \in Passed => FALSE
        <5> SUFFICES ASSUME NEW j \in 1..(at - 1), children[j] = children[at] PROVE FALSE
          BY <1>3 DEF Passed
        <5>1. j \in 1..Len(children) /\ j # at /\ DOMAIN children = 1..Len(children)
          BY <1>2, LenProperties
        <5> QED
          BY <1>2, <3>4, <5>1 DEF IsInjective
      <4>4. c \in OutlineElements => c \notin Range(e)
        BY <1>2, <1>3, <3>4, <4>2, <4>3
      <4>5. IsInjective(Append(e, c)) <=> IsInjective(e) /\ c \notin Range(e)
        BY <1>3, <4>2, RangeAppend
      <4> QED
        BY <1>2, <3>4, <4>1, <4>2, <4>4, <4>5
    <3> QED
      BY <1>2, <3>1, <3>2, <3>3, <3>4
  <2>2. CASE Expansion(c) # <<>>
    <3>1. PICK x : /\ x = Expansion(c) /\ x \in Seq(Parts) /\ c \in Containers
                   /\ Range(x) \cap (Range(children) \cup Range(extra)) = {}
                   /\ Distinct => IsInjective(x)
      BY <1>2, <2>2, ExpansionIs
    <3>2. extra' = extra \o x /\ extra' \in Seq(Parts) /\ Range(extra') = Range(extra) \cup Range(x)
      BY <1>1, <1>2, <1>3, <2>2, <3>1, ConcatProperties, RangeConcatenation
    <3>3. c \notin W
      BY <1>4, <3>1, ContainersAreUnknown
    <3>4. Only(x, W) = <<>>
      <4>1. Only(x, W) \in Seq(Parts) /\ Range(Only(x, W)) = {}
        BY <1>4, <3>1, OnlyType, OnlyFacts
      <4> QED
        BY <4>1, EmptyRange
    <3>5. Only(extra', W) = Only(extra, W)
      <4>1. Only(extra, W) \in Seq(Parts) /\ Only(extra \o x, W) = Only(extra, W) \o Only(x, W)
        BY <1>2, <1>c, <3>1, OnlyType
      <4> QED
        BY <3>2, <3>4, <4>1, ConcatEmptySeq
    <3>6. ASSUME Distinct PROVE IsInjective(Elements(extra'))
      <4>1. Elements(extra') = Elements(extra) \o Elements(x)
        BY <1>c, <3>1, <3>2 DEF Elements
      <4>2. PICK e : e = Elements(extra) /\ e \in Seq(Parts) /\ Range(e) = Range(extra) \cap OutlineElements
        BY <1>2, OnlyType, OnlyFacts DEF Elements
      <4>3. PICK y : /\ y = Elements(x) /\ y \in Seq(Parts) /\ Range(y) = Range(x) \cap OutlineElements
                     /\ IsInjective(y)
        BY <3>1, <3>6, OnlyType, OnlyFacts DEF Elements
      <4>4. IsInjective(e \o y) <=> IsInjective(e) /\ IsInjective(y)
        BY <3>1, <4>2, <4>3, InjectiveConcat
      <4> QED
        BY <1>2, <3>6, <4>1, <4>2, <4>3, <4>4
    <3> QED
      BY <1>2, <1>7, <3>1, <3>2, <3>3, <3>5, <3>6
  <2> QED
    BY <2>1, <2>2
<1>10. NodeTypes'
  BY <1>1, <1>2, <1>9, SameInput DEF NodeTypes
<1>11. /\ Only(extra, ListedKnown)' = Only(SubSeq(children, 1, at - 1), ListedKnown)'
       /\ at' <= Len(children') + 1 /\ Keeps(children)'
  <2>1. (at + 1) - 1 = at /\ at + 1 <= Len(children) + 1
    BY <1>2
  <2> QED
    BY <1>1, <1>2, <1>4, <1>9, <2>1, SameInput DEF Keeps
<1>12. Distinct' =>
         /\ IsInjective(Elements(extra))' /\ IsInjective(children)'
         /\ (Range(extra) \cap Range(children) \cap OutlineElements \subseteq Passed)'
  BY <1>1, <1>2, <1>8, <1>9, SameInput DEF Elements
<1>13. ElementsInv'
  BY <1>1, <1>11, <1>12, SameInput DEF NodeInv, ElementsInv
<1>14. EmbedInv'
  BY <1>1, SameInput DEF NodeInv, EmbedInv
<1> QED
  BY <1>10, <1>13, <1>14 DEF NodeInv

LEMMA NodeEndExpand == ASSUME NodeInv, EndExpand PROVE NodeInv'
<1>1. /\ step = "expand" /\ at > Len(children) /\ UNCHANGED Input /\ step' = "done"
      /\ children' = extra /\ UNCHANGED <<tags, at, best, extra>>
  BY DEF EndExpand, Input
<1>2. /\ NodeTypes /\ node = "Outline" /\ at - 1 = Len(children)
      /\ children \in Seq(Parts) /\ extra \in Seq(Parts) /\ Keeps(children)
      /\ Only(extra, ListedKnown) = Only(SubSeq(children, 1, at - 1), ListedKnown)
      /\ Distinct => IsInjective(Elements(extra))
  BY <1>1, LenProperties DEF NodeInv, NodeTypes, ElementsInv
<1>3. SubSeq(children, 1, at - 1) = children
  BY <1>2, SubSeqFull
<1>4. Keeps(children)'
  BY <1>1, <1>2, <1>3, SameInput DEF Keeps
<1>5. Distinct' => IsInjective(Elements(children))'
  BY <1>1, <1>2, SameInput DEF Elements
<1>6. NodeTypes'
  BY <1>1, <1>2, SameInput DEF NodeTypes
<1> QED
  BY <1>1, <1>2, <1>4, <1>5, <1>6, SameInput DEF NodeInv, ElementsInv, EmbedInv

LEMMA NodeTakeContent == ASSUME NodeInv, TakeContent PROVE NodeInv'
<1>1. /\ step = "merge" /\ node = "OutlineElement" /\ UNCHANGED Input /\ step' = "embed"
      /\ children' = Refs("ContentChildNodes") /\ UNCHANGED <<tags, at, best, extra>>
  BY DEF TakeContent, Input
<1>2. NodeTypes /\ props \in Properties /\ extra = <<>> /\ at = 1
  BY <1>1 DEF NodeInv, NodeTypes, ElementsInv
<1>3. Refs("ContentChildNodes") \in Seq(Parts) /\ Len(Refs("ContentChildNodes")) \in Nat
  BY <1>2, RefsIs, LenProperties
<1>4. NodeTypes'
  BY <1>1, <1>2, <1>3, SameInput DEF NodeTypes
<1>5. Passed' = {} /\ EmbeddedIn({})' = {}
  BY <1>1, <1>2 DEF Passed, EmbeddedIn
<1>6. EmbeddedIn(Passed)' = {} /\ Range(extra)' = {} /\ IsInjective(extra)'
  BY <1>1, <1>2, <1>5, RangeEmpty DEF EmbeddedIn
<1>7. ElementsInv'
  BY <1>1, SameInput DEF ElementsInv
<1>8. EmbedInv'
  BY <1>1, <1>2, <1>3, <1>6, SameInput DEF EmbedInv
<1> QED
  BY <1>4, <1>7, <1>8 DEF NodeInv

LEMMA NodeEmbed == ASSUME NodeInv, EmbedObjects PROVE NodeInv'
<1>1. /\ step = "embed" /\ at <= Len(children) /\ UNCHANGED Input
      /\ UNCHANGED <<tags, step, children, best>> /\ at' = at + 1
      /\ extra' = extra \o Embedded(children[at])
  BY DEF EmbedObjects, Input
<1>2. /\ NodeTypes /\ at \in 1..Len(children) /\ Len(children) \in Nat
      /\ children \in Seq(Parts) /\ extra \in Seq(Parts) /\ inner \in [Containers \cup Paragraphs -> Inner]
      /\ children = Refs("ContentChildNodes")
      /\ IsInjective(extra) /\ Range(extra) = EmbeddedIn(Passed)
  BY <1>1, LenProperties DEF NodeInv, NodeTypes, EmbedInv
<1>3. PICK c : c = children[at]
  OBVIOUS
<1>4. PICK new : /\ new = Embedded(c) /\ new \in Seq(Parts) /\ IsInjective(new)
                 /\ Range(new) \cap Range(extra) = {}
                 /\ Range(extra) \cup Range(new) =
                      Range(extra) \cup (IF c \in Paragraphs THEN Range(inner[c]) \ Range(children) ELSE {})
  <2>1. CASE c \notin Paragraphs
    <3>1. Embedded(c) = <<>> /\ <<>> \in Seq(Parts)
      BY <2>1, EmptySeq DEF Embedded
    <3> QED
      BY <2>1, <3>1, RangeEmpty
  <2>2. CASE c \in Paragraphs
    <3>1. PICK list : list = inner[c] /\ list \in Seq(Parts)
      BY <1>2, <2>2, InnerAreReferences DEF Parts
    <3>2. PICK o : o = Once(list) /\ o \in Seq(Parts) /\ Range(o) = Range(list) /\ IsInjective(o)
      BY <3>1, OnceType, OnceFacts
    <3>3. PICK V : V = Range(o) \ (Range(children) \cup Range(extra))
      OBVIOUS
    <3>4. Embedded(c) = Only(o, V)
      BY <2>2, <3>1, <3>2, <3>3 DEF Embedded, Unseen
    <3>5. /\ Only(o, V) \in Seq(Parts) /\ Range(Only(o, V)) = Range(o) \cap V
          /\ IsInjective(Only(o, V))
      BY <3>2, OnlyType, OnlyFacts
    <3>6. Range(Only(o, V)) = Range(list) \ (Range(children) \cup Range(extra))
      BY <3>2, <3>3, <3>5
    <3>7. /\ Range(Only(o, V)) \cap Range(extra) = {}
          /\ Range(extra) \cup Range(Only(o, V)) = Range(extra) \cup (Range(list) \ Range(children))
      BY <3>6
    <3>8. (IF c \in Paragraphs THEN Range(inner[c]) \ Range(children) ELSE {})
            = Range(list) \ Range(children)
      BY <2>2, <3>1
    <3> QED
      BY <3>2, <3>4, <3>5, <3>7, <3>8
  <2> QED
    BY <2>1, <2>2
<1>5. extra' = extra \o new
  BY <1>1, <1>3, <1>4
<1>6. /\ extra' \in Seq(Parts) /\ IsInjective(extra')
      /\ Range(extra') = Range(extra) \cup Range(new)
  <2>1. IsInjective(extra \o new) <=> IsInjective(extra) /\ IsInjective(new)
    BY <1>2, <1>4, InjectiveConcat
  <2> QED
    BY <1>2, <1>4, <1>5, <2>1, ConcatProperties, RangeConcatenation
<1>7. Passed' = Passed \cup {c}
  <2>1. 1..((at + 1) - 1) = 1..(at - 1) \cup {at}
    BY <1>2
  <2> QED
    BY <1>1, <1>3, <2>1 DEF Passed
<1>8. EmbeddedIn(Passed \cup {c})
        = EmbeddedIn(Passed) \cup (IF c \in Paragraphs THEN Range(inner[c]) \ Range(children) ELSE {})
  <2>1. CASE c \in Paragraphs
    <3>1. (Passed \cup {c}) \cap Paragraphs = (Passed \cap Paragraphs) \cup {c}
      BY <2>1
    <3>2. UNION {Range(inner[p]) : p \in (Passed \cap Paragraphs) \cup {c}}
            = (UNION {Range(inner[p]) : p \in Passed \cap Paragraphs}) \cup Range(inner[c])
      OBVIOUS
    <3> QED
      BY <1>2, <2>1, <3>1, <3>2 DEF EmbeddedIn
  <2>2. CASE c \notin Paragraphs
    <3>1. (Passed \cup {c}) \cap Paragraphs = Passed \cap Paragraphs
      BY <2>2
    <3> QED
      BY <2>2, <3>1 DEF EmbeddedIn
  <2> QED
    BY <2>1, <2>2
<1>9. Range(extra') = EmbeddedIn(Passed \cup {c})
  BY <1>2, <1>4, <1>6, <1>8
<1>10. EmbeddedIn(Passed)' = EmbeddedIn(Passed \cup {c})
  BY <1>1, <1>7, SameInput DEF EmbeddedIn
<1>11. NodeTypes'
  BY <1>1, <1>2, <1>6, SameInput DEF NodeTypes
<1>12. ElementsInv'
  BY <1>1, SameInput DEF NodeInv, ElementsInv
<1>13. EmbedInv'
  <2>1. at' <= Len(children') + 1 /\ children' = Refs("ContentChildNodes")' /\ node' = "OutlineElement"
    BY <1>1, <1>2, SameInput DEF NodeInv, EmbedInv
  <2> QED
    BY <1>1, <1>6, <1>9, <1>10, <2>1 DEF EmbedInv
<1> QED
  BY <1>11, <1>12, <1>13 DEF NodeInv

LEMMA NodeEndEmbed == ASSUME NodeInv, EndEmbed PROVE NodeInv'
<1>1. /\ step = "embed" /\ at > Len(children) /\ UNCHANGED Input /\ step' = "propagate"
      /\ children' = children \o extra /\ UNCHANGED <<tags, at, best, extra>>
  BY DEF EndEmbed, Input
<1>2. PICK content : content = Refs("ContentChildNodes") /\ content = children
  BY <1>1 DEF NodeInv, EmbedInv
<1>3. /\ NodeTypes /\ node = "OutlineElement" /\ at - 1 = Len(content) /\ Len(content) \in Nat
      /\ content \in Seq(Parts) /\ extra \in Seq(Parts)
      /\ IsInjective(extra) /\ Range(extra) = EmbeddedIn(Passed)
  BY <1>1, <1>2, LenProperties DEF NodeInv, NodeTypes, EmbedInv
<1>4. Passed = Range(content)
  BY <1>2, <1>3, RangeEquality DEF Passed
<1>5. Len(extra) = Cardinality(EmbeddedIn(Range(content)))
  BY <1>3, <1>4, InjectiveLength
<1>6. /\ content \o extra \in Seq(Parts)
      /\ Len(content \o extra) = Len(content) + Cardinality(EmbeddedIn(Range(content)))
      /\ Range(content \o extra) = Range(content) \cup EmbeddedIn(Range(content))
  <2>1. PICK e : e = extra
    OBVIOUS
  <2>2. e \in Seq(Parts) /\ content \in Seq(Parts)
    BY <1>3, <2>1
  <2>3. content \o e \in Seq(Parts) /\ Len(content \o e) = Len(content) + Len(e)
    BY <2>2, ConcatProperties
  <2>4. Range(content \o e) = Range(content) \cup Range(e)
    BY <2>2, RangeConcatenation
  <2>5. Range(e) = EmbeddedIn(Range(content)) /\ Len(e) = Cardinality(EmbeddedIn(Range(content)))
    BY <1>3, <1>4, <1>5, <2>1
  <2>6. extra = e
    BY <2>1
  <2> HIDE <2>1
  <2> QED
    BY <2>3, <2>4, <2>5, <2>6
<1>7. SubSeq(content \o extra, 1, Len(content)) = content
  <2>1. CASE Len(content) = 0
    <3>1. content = <<>> /\ SubSeq(content \o extra, 1, 0) = <<>>
      BY <1>3, <2>1, EmptySeq, SubSeqEmpty
    <3> QED
      BY <2>1, <3>1
  <2>2. CASE Len(content) # 0
    <3>1. 1 \in 1..Len(content) /\ Len(content) \in 1..Len(content)
      BY <1>3, <2>2
    <3>2. SubSeq(content \o extra, 1, Len(content)) = SubSeq(content, 1, Len(content))
      BY <1>3, <3>1, SubSeqOfConcat1
    <3> QED
      BY <1>3, <3>2, SubSeqFull
  <2> QED
    BY <2>1, <2>2
<1>8. children' = content \o extra /\ Refs("ContentChildNodes")' = content
  BY <1>1, <1>2, SameInput
<1>9. EmbeddedIn(Range(content))' = EmbeddedIn(Range(content)) /\ node' = node
  BY <1>1, SameInput
<1>10. NodeTypes'
  BY <1>1, <1>3, <1>6, <1>8, SameInput DEF NodeTypes
<1>11. ElementsInv'
  BY <1>1 DEF ElementsInv
<1>12. EmbeddedIn(Range(Refs("ContentChildNodes")))' = EmbeddedIn(Range(content))
  BY <1>8, <1>9 DEF EmbeddedIn
<1>13. EmbedInv'
  BY <1>1, <1>3, <1>6, <1>7, <1>8, <1>9, <1>12 DEF EmbedInv
<1> QED
  BY <1>10, <1>11, <1>13 DEF NodeInv

(* Tags that are not there yet are put behind those that are.              *)
LEMMA TagsMerged ==
    ASSUME NEW a \in TagLists, NEW b \in TagLists
    PROVE  IsInjective(MergeTags(a, b)) /\ Range(b) \subseteq Range(MergeTags(a, b))
<1> DEFINE S == Range(a) \cup Range(b)
<1>1. a \in Seq(S) /\ b \in Seq(S) /\ IsInjective(a) /\ IsInjective(b)
  <2>1. a \in Seq(Range(a)) /\ b \in Seq(Range(b)) /\ Range(a) \subseteq S /\ Range(b) \subseteq S
    BY TagListsAreInjective
  <2> HIDE DEF S
  <2> QED
    BY <2>1, SeqMonotonic, TagListsAreInjective
<1> HIDE DEF S
<1>2. PICK V : V = Range(b) \ Range(a)
  OBVIOUS
<1>3. PICK new : /\ new = Only(b, V) /\ new \in Seq(S)
                 /\ Range(new) = Range(b) \cap V /\ IsInjective(new)
  BY <1>1, OnlyType, OnlyFacts
<1>4. MergeTags(a, b) = a \o new
  BY <1>2, <1>3 DEF MergeTags, Unseen
<1>5. Range(a \o new) = Range(a) \cup Range(new)
  BY <1>1, <1>3, RangeConcatenation
<1>6. Range(a) \cap Range(new) = {}
  BY <1>2, <1>3
<1>7. IsInjective(a \o new) <=> IsInjective(a) /\ IsInjective(new)
  BY <1>1, <1>3, <1>6, InjectiveConcat
<1>8. Range(b) \subseteq Range(a) \cup Range(new)
  BY <1>2, <1>3
<1> QED
  BY <1>1, <1>3, <1>4, <1>5, <1>7, <1>8

LEMMA NodePropagate == ASSUME NodeInv, Propagate PROVE NodeInv'
<1>1. /\ step = "propagate" /\ UNCHANGED Input /\ step' = "done"
      /\ tags' = [f \in Files |-> IF f \in Range(children) THEN MergeTags(tags[f], ownTags) ELSE tags[f]]
      /\ UNCHANGED <<at, children, best, extra>>
  BY DEF Propagate, Input
<1>2. NodeTypes /\ node = "OutlineElement" /\ tags \in [Files -> TagLists] /\ ownTags \in TagLists
  BY <1>1 DEF NodeInv, NodeTypes, EmbedInv
<1>3. \A f \in Range(children) \cap Files :
        IsInjective(tags'[f]) /\ Range(ownTags) \subseteq Range(tags'[f])
  <2> TAKE f \in Range(children) \cap Files
  <2>1. tags'[f] = MergeTags(tags[f], ownTags) /\ tags[f] \in TagLists
    BY <1>1, <1>2
  <2> QED
    BY <1>2, <2>1, TagsMerged
<1>4. NodeTypes'
  BY <1>1, <1>2, SameInput DEF NodeTypes
<1>5. ElementsInv'
  BY <1>1, <1>2, SameInput DEF ElementsInv
<1>6. EmbedInv'
  <2>1. /\ SubSeq(children, 1, Len(Refs("ContentChildNodes"))) = Refs("ContentChildNodes")
        /\ Len(children) = Len(Refs("ContentChildNodes"))
                             + Cardinality(EmbeddedIn(Range(Refs("ContentChildNodes"))))
        /\ Range(children) = Range(Refs("ContentChildNodes"))
                               \cup EmbeddedIn(Range(Refs("ContentChildNodes")))
    BY <1>1, <1>2 DEF NodeInv, EmbedInv
  <2>2. /\ Refs("ContentChildNodes")' = Refs("ContentChildNodes")
        /\ EmbeddedIn(Range(Refs("ContentChildNodes")))' = EmbeddedIn(Range(Refs("ContentChildNodes")))
    BY <1>1, SameInput DEF EmbeddedIn
  <2> QED
    BY <1>1, <1>2, <1>3, <2>1, <2>2, SameInput DEF EmbedInv
<1> QED
  BY <1>4, <1>5, <1>6 DEF NodeInv

LEMMA NodeStep == NodeInv /\ [NodeNext]_nodeVars => NodeInv'
<1> SUFFICES ASSUME NodeInv, [NodeNext]_nodeVars PROVE NodeInv'
  OBVIOUS
<1>1. CASE Merge
  BY <1>1, NodeMerge
<1>2. CASE ScanProperty
  BY <1>2, NodeScan
<1>3. CASE AddBest
  BY <1>3, NodeAddBest
<1>4. CASE ExpandChild
  BY <1>4, NodeExpand
<1>5. CASE EndExpand
  BY <1>5, NodeEndExpand
<1>6. CASE TakeContent
  BY <1>6, NodeTakeContent
<1>7. CASE EmbedObjects
  BY <1>7, NodeEmbed
<1>8. CASE EndEmbed
  BY <1>8, NodeEndEmbed
<1>9. CASE Propagate
  BY <1>9, NodePropagate
<1>10. CASE UNCHANGED nodeVars
  <2>1. UNCHANGED Input /\ UNCHANGED <<tags, step, at, children, best, extra>>
    BY <1>10 DEF nodeVars, Input
  <2>2. Passed' = Passed /\ EmbeddedIn(Passed)' = EmbeddedIn(Passed)
    BY <2>1, SameInput DEF Passed, EmbeddedIn
  <2>3. NodeTypes'
    BY <2>1, SameInput DEF NodeInv, NodeTypes
  <2>4. ElementsInv'
    BY <2>1, <2>2, SameInput DEF NodeInv, ElementsInv, Keeps, Elements
  <2>5. EmbeddedIn(Range(Refs("ContentChildNodes")))' = EmbeddedIn(Range(Refs("ContentChildNodes")))
    BY <2>1, SameInput DEF EmbeddedIn
  <2>6. EmbedInv'
    BY <2>1, <2>2, <2>5, SameInput DEF NodeInv, EmbedInv
  <2> QED
    BY <2>3, <2>4, <2>6 DEF NodeInv
<1> QED
  BY <1>1, <1>2, <1>3, <1>4, <1>5, <1>6, <1>7, <1>8, <1>9, <1>10 DEF NodeNext, NodeStop

(* Whatever properties and containers the references hide in, no child of  *)
(* the two lists is lost, their order is kept, and no outline element is   *)
(* doubled.                                                                *)
THEOREM ElementsStay == NodeSpec => []ElementsKeptOnce
<1>1. NodeInv => ElementsKeptOnce
  BY DEF NodeInv, ElementsInv, Keeps, ListedKnown, Distinct, ElementsKeptOnce, Done
<1> QED
  BY <1>1, NodeStart, NodeStep, PTL DEF NodeSpec

(* Every object embedded in a paragraph follows the content once, for any  *)
(* number of paragraphs that share any objects; tags are passed on once.   *)
THEOREM EmbeddedFollow == NodeSpec => []EmbeddedOnce
<1>1. NodeInv => EmbeddedOnce
  BY DEF NodeInv, EmbedInv, EmbeddedIn, EmbeddedOnce, Done
<1> QED
  BY <1>1, NodeStart, NodeStep, PTL DEF NodeSpec

-----------------------------------------------------------------------------
(* Global id tables, for indices, limits and sequences of any size.        *)
(*                                                                         *)
(* Declared is what makes the second pass safe: an index of the table      *)
(* belongs to an entry that is finished, or to the finished part of the    *)
(* current one, and no two entries share an index.  So the next index is   *)
(* always a new one.                                                       *)

(* Entry k is in the finished part of the sequence as far as index i goes.      *)
Finished(k, i) ==
    \/ k < cursor
    \/ k = cursor /\ ~IsDeclare(ops[k]) /\ i < ops[k].to + copied

Disjoint ==
    /\ \A j, k \in 1..Len(ops) : j # k => Dests(ops[j]) \cap Dests(ops[k]) = {}
    /\ \A k \in 1..Len(ops) : Dests(ops[k]) \subseteq dest

Phases ==
    /\ pc = "parse" => cursor = 1
    /\ pc = "parse" => copied = 0

Partial ==
    copied > 0 => /\ cursor <= Len(ops)
                  /\ ~IsDeclare(ops[cursor])
                  /\ ~HasNoEffect(ops[cursor])
                  /\ copied < ops[cursor].count

Origin ==
    \A i \in DOMAIN table : \E k \in 1..Len(ops) :
        Finished(k, i) /\ Gives(ops[k], i, table[i])

TableComplete ==
    \A k \in 1..Len(ops) : ~HasNoEffect(ops[k]) =>
        \A i \in Dests(ops[k]) : Finished(k, i) => i \in DOMAIN table

IInv == TypeOK /\ Disjoint /\ Phases /\ Partial /\ Origin /\ TableComplete
        /\ NoIndexClash /\ TableIsInjective

-----------------------------------------------------------------------------
(* An entry is a record of one of the two shapes.                          *)
LEMMA OpShape ==
    ASSUME NEW op \in Op
    PROVE  /\ IsDeclare(op) => op \in Declare
           /\ ~IsDeclare(op) => op \in Copy
           /\ op.to \in Index
           /\ IsDeclare(op) => op.guid \in Guids
           /\ ~IsDeclare(op) => op.from \in Index /\ op.count \in 0..MaxCopy
BY DEF Op, Declare, Copy, IsDeclare

LEMMA DestsAreIndices ==
    ASSUME NEW op \in Op
    PROVE  Dests(op) \subseteq 0..(MaxIndex + MaxCopy)
<1>1. MaxIndex \in Nat /\ MaxCopy \in Nat
  BY Bounds
<1>2. op.to \in 0..MaxIndex
  BY OpShape DEF Index
<1>3. ~IsDeclare(op) => op.count \in 0..MaxCopy
  BY OpShape
<1> QED
  BY <1>1, <1>2, <1>3 DEF Dests

LEMMA DestsRange ==
    ASSUME NEW op \in Op, NEW i \in Dests(op)
    PROVE  /\ i \in Nat /\ op.to \in Nat /\ i >= op.to
           /\ ~IsDeclare(op) => op.count \in Nat /\ i < op.to + op.count
<1>1. op.to \in 0..MaxIndex
  BY OpShape DEF Index
<1>2. ~IsDeclare(op) => op.count \in 0..MaxCopy
  BY OpShape
<1> QED
  BY <1>1, <1>2 DEF Dests

LEMMA AddType ==
    ASSUME table \in Table, NEW index \in 0..Limit-1, NEW guid \in Guids, Add(index, guid)
    PROVE  table' \in Table /\ DOMAIN table' = DOMAIN table \cup {index}
<1>1. PICK S \in SUBSET (0..Limit-1) : table \in [S -> Guids]
  BY DEF Table
<1>2. table' \in [S \cup {index} -> Guids]
  BY <1>1 DEF Add
<1>3. S \cup {index} \in SUBSET (0..Limit-1)
  OBVIOUS
<1> QED
  BY <1>1, <1>2, <1>3 DEF Table

LEMMA EntryType ==
    ASSUME TypeOK, Building
    PROVE  /\ cursor \in 1..Len(ops)
           /\ Entry \in Op
  BY DEF TypeOK, Building, Entry

LEMMA SourceType ==
    ASSUME TypeOK, dep # None, NEW i \in DOMAIN dep
    PROVE  dep[i] \in Guids
<1>1. PICK S \in SUBSET (0..Limit-1) : dep \in [S -> Guids]
  BY DEF TypeOK, Table
<1> QED
  BY <1>1

LEMMA TypeAtStart == Init => TypeOK
<1> SUFFICES ASSUME Init PROVE TypeOK
  OBVIOUS
<1>1. table \in [{} -> Guids]
  BY DEF Init
<1>2. {} \in SUBSET (0..Limit-1)
  OBVIOUS
<1>3. table \in Table
  BY <1>1, <1>2 DEF Table
<1>4. cursor \in 1..(Len(ops) + 1) /\ copied \in 0..MaxCopy
  BY Bounds DEF Init
<1>5. strict \in BOOLEAN
  BY DEF Init
<1> QED
  BY <1>3, <1>4, <1>5 DEF Init, TypeOK

LEMMA TypeStep == TypeOK /\ [Next]_vars => TypeOK'
<1> SUFFICES ASSUME TypeOK, [Next]_vars PROVE TypeOK'
  OBVIOUS
<1>0. strict' \in BOOLEAN
  BY DEF TypeOK, Next, vars, ParseEntry, RejectSequence, EndSequence, SkipEntry, RejectEntry,
         AddDeclared, RejectDeclared, AddCopied, RejectSource, RejectCopied, RejectAdd, Raise,
         EndTable, Stopped
<1>1. CASE ParseEntry
  <2>1. PICK op \in Op : /\ ops' = Append(ops, op)
                         /\ dest' = dest \cup Dests(op)
                         /\ seen_guid' = IF IsDeclare(op) THEN seen_guid \cup {op.guid} ELSE seen_guid
    BY <1>1 DEF ParseEntry
  <2>2. ops' \in Seq(Op) /\ Len(ops') = Len(ops) + 1
    BY <2>1 DEF TypeOK
  <2>3. dest' \subseteq 0..(MaxIndex + MaxCopy)
    BY <2>1, DestsAreIndices DEF TypeOK
  <2>4. seen_guid' \subseteq Guids
    BY <2>1, OpShape DEF TypeOK
  <2>5. cursor' \in 1..(Len(ops') + 1)
    BY <1>1, <2>2 DEF TypeOK, ParseEntry
  <2> QED
    BY <1>0, <1>1, <2>2, <2>3, <2>4, <2>5 DEF TypeOK, ParseEntry
<1>2. CASE EndSequence \/ EndTable \/ Stopped \/ UNCHANGED vars
  BY <1>0, <1>2 DEF TypeOK, EndSequence, EndTable, Stopped, vars
<1>3. CASE RejectSequence \/ RejectEntry \/ RejectDeclared \/ RejectSource \/ RejectCopied
  BY <1>0, <1>3 DEF TypeOK, RejectSequence, RejectEntry, RejectDeclared, RejectSource, RejectCopied,
              RejectAdd, Raise
<1>4. CASE SkipEntry
  <2>1. cursor' \in 1..(Len(ops) + 1)
    BY <1>4 DEF TypeOK, SkipEntry, Building
  <2> QED
    BY <1>0, <1>4, <2>1 DEF TypeOK, SkipEntry
<1>5. CASE AddDeclared
  <2>1. Entry \in Op /\ cursor \in 1..Len(ops)
    BY <1>5, EntryType DEF AddDeclared
  <2>2. Entry.to \in 0..Limit-1 /\ Entry.guid \in Guids
    BY <1>5, <2>1, OpShape, Bounds DEF AddDeclared, HasNoEffect, Index
  <2>3. table' \in Table
    BY <1>5, <2>2, AddType DEF AddDeclared, TypeOK
  <2>4. cursor' \in 1..(Len(ops) + 1)
    BY <1>5, <2>1 DEF AddDeclared
  <2> QED
    BY <1>0, <1>5, <2>3, <2>4 DEF TypeOK, AddDeclared
<1>6. CASE AddCopied
  <2>1. Entry \in Op /\ cursor \in 1..Len(ops)
    BY <1>6, EntryType DEF AddCopied, Copying
  <2>2. Entry.from \in Index /\ Entry.to \in Index /\ Entry.count \in 0..MaxCopy
    BY <1>6, <2>1, OpShape DEF AddCopied, Copying
  <2>3. dep # None /\ InLimit(Entry)
    BY <1>6 DEF AddCopied, Copying, HasNoEffect
  <2>4. To \in Dests(Entry)
    BY <1>6, <2>2, Bounds DEF AddCopied, Copying, Dests, To, TypeOK, Index
  <2>5. To \in 0..Limit-1
    BY <2>2, <2>3, <2>4, Bounds DEF InLimit, To, Index, TypeOK
  <2>6. dep[From] \in Guids
    BY <1>6, <2>3, SourceType DEF AddCopied
  <2>7. table' \in Table
    BY <1>6, <2>5, <2>6, AddType DEF AddCopied, TypeOK
  <2>8. cursor' \in 1..(Len(ops) + 1) /\ copied' \in 0..MaxCopy
    BY <1>6, <2>1, <2>2, Bounds DEF AddCopied, Copying, TypeOK
  <2> QED
    BY <1>0, <1>6, <2>7, <2>8 DEF TypeOK, AddCopied
<1> QED
  BY <1>1, <1>2, <1>3, <1>4, <1>5, <1>6 DEF Next

(* Every variable has its type: in particular no index at or above the     *)
(* limit enters a table, whatever a tolerant parser lets pass.             *)
THEOREM TypeCorrect == Spec => []TypeOK
  BY TypeAtStart, TypeStep, PTL DEF Spec


-----------------------------------------------------------------------------
(* The index the second pass is about to add is new.                       *)
LEMMA IndexIsFree ==
    ASSUME IInv, Building, NEW i \in Dests(Entry), ~Finished(cursor, i)
    PROVE  i \notin DOMAIN table
<1>1. SUFFICES ASSUME i \in DOMAIN table PROVE FALSE
  OBVIOUS
<1>2. PICK k \in 1..Len(ops) : Finished(k, i) /\ i \in Dests(ops[k])
  BY <1>1 DEF IInv, Origin, Gives
<1>3. k # cursor
  BY <1>2
<1>4. cursor \in 1..Len(ops)
  BY EntryType DEF IInv
<1> QED
  BY <1>2, <1>3, <1>4 DEF IInv, Disjoint, Entry

LEMMA DeclaredIsFree ==
    ASSUME IInv, Building, IsDeclare(Entry)
    PROVE  Entry.to \in Dests(Entry) /\ Entry.to \notin DOMAIN table
<1>1. Entry.to \in Dests(Entry)
  BY DEF Dests
<1>2. ~Finished(cursor, Entry.to)
  BY DEF Finished, Entry, IInv, TypeOK
<1> QED
  BY <1>1, <1>2, IndexIsFree

LEMMA CopiedIsFree ==
    ASSUME IInv, Copying
    PROVE  To \in Dests(Entry) /\ To \notin DOMAIN table
<1>1. Entry \in Op /\ cursor \in 1..Len(ops)
  BY EntryType DEF IInv, Copying
<1>2. Entry.to \in Nat /\ Entry.count \in Nat /\ copied \in Nat
  BY <1>1, OpShape, Bounds DEF Copying, Index, IInv, TypeOK
<1>3. To \in Dests(Entry)
  BY <1>2 DEF Copying, Dests, To
<1>4. ~Finished(cursor, To)
  BY <1>1, <1>2 DEF Finished, Entry, To
<1> QED
  BY <1>3, <1>4, IndexIsFree DEF Copying

(* Adding a new index with a new GUID keeps the table a bijection.         *)
LEMMA AddKeepsInjective ==
    ASSUME Injective(table), NEW index, NEW guid, IsNew(index, guid), Add(index, guid)
    PROVE  Injective(table')
  BY DEF Injective, IsNew, Add, Range

LEMMA ParseKeeps ==
    ASSUME IInv, ParseEntry
    PROVE  Disjoint' /\ Phases' /\ Partial' /\ Origin' /\ TableComplete'
<1>1. PICK op \in Op : /\ CanParse(op)
                       /\ ops' = Append(ops, op)
                       /\ dest' = dest \cup Dests(op)
  BY DEF ParseEntry
<1>2. ops \in Seq(Op) /\ cursor = 1 /\ copied = 0
  BY DEF IInv, TypeOK, Phases, ParseEntry
<1>3. /\ Len(ops') = Len(ops) + 1
      /\ ops'[Len(ops) + 1] = op
      /\ \A k \in 1..Len(ops) : ops'[k] = ops[k]
      /\ Len(ops) \in Nat
  BY <1>1, <1>2
<1>4. Dests(op) \cap dest = {}
  BY <1>1 DEF CanParse, IsFresh
<1>5. Disjoint'
  <2>1. \A k \in 1..Len(ops') : Dests(ops'[k]) \subseteq dest'
    BY <1>1, <1>3 DEF IInv, Disjoint
  <2>2. \A j, k \in 1..Len(ops') : j # k => Dests(ops'[j]) \cap Dests(ops'[k]) = {}
    <3> SUFFICES ASSUME NEW j \in 1..Len(ops'), NEW k \in 1..Len(ops'), j # k
                 PROVE  Dests(ops'[j]) \cap Dests(ops'[k]) = {}
      OBVIOUS
    <3>1. CASE j \in 1..Len(ops) /\ k \in 1..Len(ops)
      BY <1>3, <3>1 DEF IInv, Disjoint
    <3>2. CASE j \in 1..Len(ops) /\ k = Len(ops) + 1
      <4>1. Dests(ops[j]) \subseteq dest
        BY <3>2 DEF IInv, Disjoint
      <4> QED
        BY <1>3, <1>4, <3>2, <4>1
    <3>3. CASE j = Len(ops) + 1 /\ k \in 1..Len(ops)
      <4>1. Dests(ops[k]) \subseteq dest
        BY <3>3 DEF IInv, Disjoint
      <4> QED
        BY <1>3, <1>4, <3>3, <4>1
    <3> QED
      BY <1>3, <3>1, <3>2, <3>3
  <2> QED
    BY <2>1, <2>2 DEF Disjoint, Dests, IsDeclare
<1>6. Phases' /\ Partial'
  BY <1>2 DEF ParseEntry, Phases, Partial
<1>7. ASSUME NEW k \in 1..Len(ops), NEW i \in Dests(ops[k]) PROVE ~Finished(k, i)
  <2>1. ops[k] \in Op
    BY <1>2
  <2>2. i \in Nat /\ ops[k].to \in Nat /\ i >= ops[k].to
    BY <2>1, DestsRange
  <2> QED
    BY <1>2, <2>2 DEF Finished
<1>8. DOMAIN table = {}
  BY <1>7 DEF IInv, Origin, Gives
<1>9. Origin'
  BY <1>8 DEF Origin, ParseEntry
<1>10. TableComplete'
  <2> SUFFICES ASSUME NEW k \in 1..Len(ops'), NEW i \in Dests(ops'[k]), Finished(k, i)'
               PROVE FALSE
    BY DEF TableComplete, Dests, IsDeclare
  <2>1. k = 1 /\ ~IsDeclare(ops'[k]) /\ i < ops'[k].to
    BY <1>2, <1>3, OpShape DEF Finished, ParseEntry, IsDeclare, Index
  <2>2. ops'[k] \in Op
    BY <1>1, <1>2, <1>3
  <2> QED
    BY <2>1, <2>2, OpShape DEF Dests, Index
<1> QED
  BY <1>5, <1>6, <1>9, <1>10

(* Only the table, cursor and copied change in the second pass.              *)
LEMMA SkipKeeps ==
    ASSUME IInv, SkipEntry
    PROVE  Disjoint' /\ Phases' /\ Partial' /\ Origin' /\ TableComplete'
<1>1. cursor \in 1..Len(ops) /\ Entry \in Op /\ copied = 0 /\ cursor' = cursor + 1
  BY EntryType DEF IInv, SkipEntry
<1>2. UNCHANGED <<dep, pc, ops, dest, copied, table>>
  BY DEF SkipEntry
<1>3. Disjoint'
  BY <1>2 DEF IInv, Disjoint, Dests, IsDeclare
<1>4. Phases' /\ Partial'
  BY <1>1, <1>2 DEF SkipEntry, Building, Phases, Partial
<1>5. ASSUME NEW k \in 1..Len(ops), NEW i PROVE Finished(k, i) => Finished(k, i)'
  BY <1>1, <1>2 DEF Finished, IsDeclare
<1>6. Origin'
  BY <1>2, <1>5 DEF IInv, Origin, Gives, HasNoEffect, InLimit, Dests, IsDeclare
<1>7. TableComplete'
  <2> SUFFICES ASSUME NEW k \in 1..Len(ops), ~HasNoEffect(ops[k]),
                      NEW i \in Dests(ops[k]), Finished(k, i)'
               PROVE  i \in DOMAIN table
    BY <1>2 DEF TableComplete, HasNoEffect, InLimit, Dests, IsDeclare
  <2>1. ops[k] \in Op
    BY DEF IInv, TypeOK
  <2>2. i \in Nat /\ ops[k].to \in Nat /\ i >= ops[k].to
    BY <2>1, DestsRange
  <2>3. k < cursor \/ k = cursor
    BY <1>1, <1>2, <2>2 DEF Finished, IsDeclare
  <2>4. CASE k < cursor
    BY <2>4 DEF IInv, TableComplete, Finished
  <2>5. CASE k = cursor
    <3>1. ~IsDeclare(Entry) /\ Entry.count = 0
      BY <2>5 DEF SkipEntry, Entry
    <3>2. Dests(Entry) = {}
      BY <1>1, <3>1, OpShape DEF Dests, Index
    <3> QED
      BY <2>5, <3>2 DEF Entry
  <2> QED
    BY <2>3, <2>4, <2>5
<1> QED
  BY <1>3, <1>4, <1>6, <1>7

LEMMA DeclareKeeps ==
    ASSUME IInv, AddDeclared
    PROVE  Disjoint' /\ Phases' /\ Partial' /\ Origin' /\ TableComplete'
<1>1. cursor \in 1..Len(ops) /\ Entry \in Op /\ cursor' = cursor + 1
  BY EntryType DEF IInv, AddDeclared
<1>2. UNCHANGED <<dep, pc, ops, dest, copied>>
  BY DEF AddDeclared
<1>3. copied = 0
  BY <1>1 DEF IInv, TypeOK, Partial, AddDeclared, Entry
<1>4. IsDeclare(Entry) /\ ~HasNoEffect(Entry)
  BY DEF AddDeclared
<1>5. Entry.to \in Dests(Entry) /\ Entry.to \notin DOMAIN table
  BY DeclaredIsFree DEF AddDeclared
<1>6. /\ DOMAIN table' = DOMAIN table \cup {Entry.to}
      /\ \A i \in DOMAIN table : table'[i] = table[i]
      /\ table'[Entry.to] = Entry.guid
  BY <1>5 DEF AddDeclared, Add
<1>7. Disjoint' /\ Phases' /\ Partial'
  <2>1. Disjoint'
    BY <1>2 DEF IInv, Disjoint, Dests, IsDeclare
  <2>2. Phases' /\ Partial'
    BY <1>2, <1>3 DEF Phases, Partial, AddDeclared, Building
  <2> QED
    BY <2>1, <2>2
<1>8. ASSUME NEW k \in 1..Len(ops), NEW i PROVE Finished(k, i) => Finished(k, i)'
  BY <1>1, <1>2 DEF Finished, IsDeclare
<1>9. Origin'
  <2> SUFFICES ASSUME NEW i \in DOMAIN table'
               PROVE  \E k \in 1..Len(ops) : Finished(k, i)' /\ Gives(ops[k], i, table'[i])
    BY <1>2 DEF Origin, Gives, HasNoEffect, InLimit, Dests, IsDeclare
  <2>1. CASE i \in DOMAIN table
    <3>1. PICK k \in 1..Len(ops) : Finished(k, i) /\ Gives(ops[k], i, table[i])
      BY <2>1 DEF IInv, Origin
    <3> QED
      BY <1>6, <1>8, <2>1, <3>1
  <2>2. CASE i = Entry.to
    <3>1. Gives(ops[cursor], i, table'[i])
      BY <1>4, <1>5, <1>6, <2>2 DEF Gives, Entry
    <3>2. PICK k \in 1..Len(ops) : k = cursor
      BY <1>1
    <3>3. Finished(k, i)'
      BY <1>1, <3>2 DEF Finished
    <3> QED
      BY <3>1, <3>2, <3>3
  <2> QED
    BY <1>6, <2>1, <2>2
<1>10. TableComplete'
  <2> SUFFICES ASSUME NEW k \in 1..Len(ops), ~HasNoEffect(ops[k]),
                      NEW i \in Dests(ops[k]), Finished(k, i)'
               PROVE  i \in DOMAIN table'
    BY <1>2 DEF TableComplete, HasNoEffect, InLimit, Dests, IsDeclare
  <2>1. ops[k] \in Op
    BY DEF IInv, TypeOK
  <2>2. i \in Nat /\ ops[k].to \in Nat /\ i >= ops[k].to
    BY <2>1, DestsRange
  <2>3. k < cursor \/ k = cursor
    BY <1>1, <1>2, <1>3, <2>2 DEF Finished, IsDeclare
  <2>4. CASE k < cursor
    BY <1>6, <2>4 DEF IInv, TableComplete, Finished
  <2>5. CASE k = cursor
    BY <1>4, <1>6, <2>5 DEF Dests, Entry
  <2> QED
    BY <2>3, <2>4, <2>5
<1> QED
  BY <1>7, <1>9, <1>10

LEMMA CopyKeeps ==
    ASSUME IInv, AddCopied
    PROVE  Disjoint' /\ Phases' /\ Partial' /\ Origin' /\ TableComplete'
<1>1. cursor \in 1..Len(ops) /\ Entry \in Op
  BY EntryType DEF IInv, AddCopied, Copying
<1>2. UNCHANGED <<dep, pc, ops, dest>>
  BY DEF AddCopied
<1>3. ~IsDeclare(Entry) /\ ~HasNoEffect(Entry) /\ copied < Entry.count
  BY DEF AddCopied, Copying
<1>4. /\ Entry.from \in Nat /\ Entry.to \in Nat /\ Entry.count \in Nat
      /\ copied \in Nat
  BY <1>1, <1>3, OpShape, Bounds DEF Index, IInv, TypeOK
<1>5. To \in Dests(Entry) /\ To \notin DOMAIN table
  BY CopiedIsFree DEF AddCopied
<1>6. /\ DOMAIN table' = DOMAIN table \cup {To}
      /\ \A i \in DOMAIN table : table'[i] = table[i]
      /\ table'[To] = dep[From] /\ From \in DOMAIN dep
  BY <1>5 DEF AddCopied, Add
<1>7. \/ copied + 1 = Entry.count /\ cursor' = cursor + 1 /\ copied' = 0
      \/ copied + 1 # Entry.count /\ cursor' = cursor /\ copied' = copied + 1
  BY DEF AddCopied
<1>8. Disjoint'
  BY <1>2 DEF IInv, Disjoint, Dests, IsDeclare
<1>9. Phases'
  BY <1>2 DEF AddCopied, Copying, Building, Phases
<1>10. Partial'
  BY <1>1, <1>2, <1>3, <1>4, <1>7 DEF Partial, Entry, HasNoEffect, InLimit, Dests, IsDeclare
<1>11. ASSUME NEW k \in 1..Len(ops), NEW i \in Dests(ops[k]), Finished(k, i) PROVE Finished(k, i)'
  <2>1. ops[k] \in Op
    BY DEF IInv, TypeOK
  <2>2. i \in Nat /\ ops[k].to \in Nat
    BY <2>1, DestsRange
  <2> QED
    BY <1>1, <1>2, <1>4, <1>7, <1>11, <2>2 DEF Finished, IsDeclare
<1>12. ASSUME NEW k \in 1..Len(ops), k = cursor, NEW i, i = To PROVE Finished(k, i)'
  BY <1>1, <1>2, <1>3, <1>4, <1>7, <1>12 DEF Finished, To, Entry, IsDeclare
<1>13. Origin'
  <2> SUFFICES ASSUME NEW i \in DOMAIN table'
               PROVE  \E k \in 1..Len(ops) : Finished(k, i)' /\ Gives(ops[k], i, table'[i])
    BY <1>2 DEF Origin, Gives, HasNoEffect, InLimit, Dests, IsDeclare
  <2>1. CASE i \in DOMAIN table
    <3>1. PICK k \in 1..Len(ops) : Finished(k, i) /\ Gives(ops[k], i, table[i])
      BY <2>1 DEF IInv, Origin
    <3>2. i \in Dests(ops[k])
      BY <3>1 DEF Gives
    <3> QED
      BY <1>6, <1>11, <2>1, <3>1, <3>2
  <2>2. CASE i = To
    <3>1. Entry.from + (To - Entry.to) = From
      BY <1>4 DEF To, From
    <3>2. Gives(ops[cursor], i, table'[i])
      BY <1>3, <1>5, <1>6, <2>2, <3>1 DEF Gives, Entry
    <3>3. PICK k \in 1..Len(ops) : k = cursor
      BY <1>1
    <3>4. Finished(k, i)'
      BY <1>12, <2>2, <3>3
    <3> QED
      BY <3>2, <3>3, <3>4
  <2> QED
    BY <1>6, <2>1, <2>2
<1>14. TableComplete'
  <2> SUFFICES ASSUME NEW k \in 1..Len(ops), ~HasNoEffect(ops[k]),
                      NEW i \in Dests(ops[k]), Finished(k, i)'
               PROVE  i \in DOMAIN table'
    BY <1>2 DEF TableComplete, HasNoEffect, InLimit, Dests, IsDeclare
  <2>1. ops[k] \in Op
    BY DEF IInv, TypeOK
  <2>2. /\ i \in Nat /\ ops[k].to \in Nat /\ i >= ops[k].to
        /\ ~IsDeclare(ops[k]) => ops[k].count \in Nat /\ i < ops[k].to + ops[k].count
    BY <2>1, DestsRange
  <2>3. Finished(k, i) \/ (k = cursor /\ i = To)
    <3>1. CASE k = cursor
      <4>1. ops[k] = Entry
        BY <3>1 DEF Entry
      <4>2. i <= Entry.to + copied
        BY <1>1, <1>2, <1>3, <1>4, <1>7, <2>2, <3>1, <4>1 DEF Finished, IsDeclare
      <4> QED
        BY <1>3, <1>4, <2>2, <3>1, <4>1, <4>2 DEF Finished, To
    <3>2. CASE k # cursor
      BY <1>1, <1>2, <1>4, <1>7, <2>2, <3>2 DEF Finished, IsDeclare
    <3> QED
      BY <3>1, <3>2
  <2> QED
    BY <1>6, <2>3 DEF IInv, TableComplete
<1> QED
  BY <1>8, <1>9, <1>10, <1>13, <1>14

LEMMA Inductive == Spec => []IInv
<1>1. Init => IInv
  <2> SUFFICES ASSUME Init PROVE IInv
    OBVIOUS
  <2>1. Len(ops) = 0 /\ DOMAIN table = {}
    BY DEF Init
  <2>2. 1..Len(ops) = {}
    BY <2>1
  <2>3. Disjoint /\ Phases /\ Origin /\ TableComplete
    BY <2>1, <2>2 DEF Init, Disjoint, Phases, Origin, TableComplete
  <2>4. Partial /\ NoIndexClash /\ TableIsInjective
    BY <2>1 DEF Init, Partial, NoIndexClash, TableIsInjective, Injective
  <2> QED
    BY <2>3, <2>4, TypeAtStart DEF IInv
<1>2. IInv /\ [Next]_vars => IInv'
  <2> SUFFICES ASSUME IInv, [Next]_vars PROVE IInv'
    OBVIOUS
  <2>0. TypeOK'
    BY TypeStep DEF IInv
  <2>1. CASE ParseEntry
    <3>1. NoIndexClash' /\ TableIsInjective'
      BY <2>1 DEF IInv, ParseEntry, NoIndexClash, TableIsInjective
    <3> QED
      BY <2>0, <2>1, <3>1, ParseKeeps DEF IInv
  <2>2. CASE EndSequence \/ EndTable \/ Stopped \/ UNCHANGED vars
    <3>1. UNCHANGED <<dep, ops, dest, cursor, copied, table, failure>> /\ (pc' = "parse" => pc = "parse")
      BY <2>2 DEF EndSequence, EndTable, Stopped, vars
    <3>2. Disjoint' /\ Phases' /\ Partial'
      BY <3>1 DEF IInv, Disjoint, Phases, Partial, Dests, IsDeclare, HasNoEffect, InLimit
    <3>3. Origin' /\ TableComplete'
      BY <3>1 DEF IInv, Origin, TableComplete, Finished, Gives, Dests, IsDeclare, HasNoEffect, InLimit
    <3>4. NoIndexClash' /\ TableIsInjective'
      BY <3>1 DEF IInv, NoIndexClash, TableIsInjective
    <3> QED
      BY <2>0, <3>2, <3>3, <3>4 DEF IInv
  <2>3. CASE RejectSequence \/ RejectEntry \/ RejectDeclared \/ RejectSource \/ RejectCopied
    <3>1. /\ UNCHANGED <<dep, ops, dest, cursor, copied, table>>
          /\ pc' = "failed"
      BY <2>3 DEF RejectSequence, RejectEntry, RejectDeclared, RejectSource, RejectCopied, RejectAdd, Raise
    <3>2. Disjoint' /\ Phases' /\ Partial'
      BY <3>1 DEF IInv, Disjoint, Phases, Partial, Dests, IsDeclare, HasNoEffect, InLimit
    <3>3. Origin' /\ TableComplete'
      BY <3>1 DEF IInv, Origin, TableComplete, Finished, Gives, Dests, IsDeclare, HasNoEffect, InLimit
    <3>4. TableIsInjective'
      BY <3>1 DEF IInv, TableIsInjective
    <3>5. NoIndexClash'
      <4>1. CASE RejectSequence \/ RejectEntry \/ RejectSource
        BY <4>1 DEF RejectSequence, RejectEntry, RejectSource, Raise, NoIndexClash
      <4>2. CASE RejectDeclared
        BY <4>2, DeclaredIsFree DEF RejectDeclared, RejectAdd, Raise, NoIndexClash
      <4>3. CASE RejectCopied
        BY <4>3, CopiedIsFree DEF RejectCopied, RejectAdd, Raise, NoIndexClash
      <4> QED
        BY <2>3, <4>1, <4>2, <4>3
    <3> QED
      BY <2>0, <3>2, <3>3, <3>4, <3>5 DEF IInv
  <2>4. CASE SkipEntry
    <3>1. NoIndexClash' /\ TableIsInjective'
      BY <2>4 DEF IInv, SkipEntry, NoIndexClash, TableIsInjective
    <3> QED
      BY <2>0, <2>4, <3>1, SkipKeeps DEF IInv
  <2>5. CASE AddDeclared
    <3>1. TableIsInjective'
      BY <2>5, AddKeepsInjective DEF IInv, AddDeclared, TableIsInjective
    <3>2. NoIndexClash'
      BY <2>5 DEF IInv, AddDeclared, NoIndexClash
    <3> QED
      BY <2>0, <2>5, <3>1, <3>2, DeclareKeeps DEF IInv
  <2>6. CASE AddCopied
    <3>1. TableIsInjective'
      BY <2>6, AddKeepsInjective DEF IInv, AddCopied, TableIsInjective
    <3>2. NoIndexClash'
      BY <2>6 DEF IInv, AddCopied, NoIndexClash
    <3> QED
      BY <2>0, <2>6, <3>1, <3>2, CopyKeeps DEF IInv
  <2> QED
    BY <2>1, <2>2, <2>3, <2>4, <2>5, <2>6 DEF Next
<1> QED
  BY <1>1, <1>2, PTL DEF Spec

-----------------------------------------------------------------------------
(* The first pass excludes every clash of indices in the second one.       *)
THEOREM SecondPassNeverClashes == Spec => []NoIndexClash
<1>1. IInv => NoIndexClash
  BY DEF IInv
<1> QED
  BY <1>1, Inductive, PTL

(* A table never gives two indices the same GUID.  So a table that was     *)
(* built may be the dependency of the cursor one: see Init.                  *)
THEOREM TableStaysInjective == Spec => []TableIsInjective
<1>1. IInv => TableIsInjective
  BY DEF IInv
<1> QED
  BY <1>1, Inductive, PTL

(* A table that is built is what the sequence declares.                    *)
THEOREM TableMatchesSequence == Spec => []TableIsDeclared
<1> DEFINE AllRead == pc = "done" => cursor > Len(ops)
<1>1. Init => AllRead
  BY DEF Init
<1>2. AllRead /\ [Next]_vars => AllRead'
  <2> SUFFICES ASSUME AllRead, [Next]_vars PROVE AllRead'
    OBVIOUS
  <2>1. CASE EndTable
    BY <2>1 DEF EndTable
  <2>2. CASE Stopped \/ UNCHANGED vars
    BY <2>2 DEF Stopped, vars
  <2>3. CASE \/ ParseEntry \/ RejectSequence \/ EndSequence \/ SkipEntry \/ RejectEntry
             \/ AddDeclared \/ RejectDeclared \/ AddCopied \/ RejectSource \/ RejectCopied
    <3>1. pc' # "done"
      BY <2>3 DEF ParseEntry, RejectSequence, EndSequence, SkipEntry, RejectEntry, AddDeclared,
             RejectDeclared, AddCopied, RejectSource, RejectCopied, RejectAdd, Raise, Copying, Building
    <3> QED
      BY <3>1
  <2> QED
    BY <2>1, <2>2, <2>3 DEF Next
<1>3. IInv /\ AllRead => TableIsDeclared
  <2> SUFFICES ASSUME IInv, AllRead, pc = "done" PROVE TableIsDeclared
    BY DEF TableIsDeclared
  <2>1. \A k \in 1..Len(ops) : \A i : Finished(k, i)
    BY DEF Finished, IInv, TypeOK
  <2> QED
    BY <2>1 DEF IInv, Origin, TableComplete, TableIsDeclared
<1> QED
  BY <1>1, <1>2, <1>3, Inductive, PTL DEF Spec
=============================================================================
