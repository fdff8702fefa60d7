------------------------------- MODULE ListProofs -------------------------------
(***************************************************************************)
(* Proofs about FileNodeList, NodeLists and ManifestContent: for files,    *)
(* committed counts and caps of any size, and for lists of any length with *)
(* any ids, hashes and signature groups.                                   *)
(***************************************************************************)
EXTENDS FileNodeList, NodeLists, ManifestContent, SequenceTheorems, FiniteSetTheorems,
        WellFoundedInduction, TLAPS

-----------------------------------------------------------------------------
(* Sets of numbers and sequences.                                          *)

(* A set of numbers that is not empty has a least element: the intervals   *)
(* up to its elements are finite sets, and inclusion of those is           *)
(* well-founded.                                                           *)
LEMMA LeastNatural ==
    ASSUME NEW T, T \subseteq Nat, T # {}
    PROVE  \E x \in T : \A y \in T : x <= y
<1> DEFINE F == {0..n : n \in T}
<1>1. \A n \in Nat : 0..n \in FiniteSubsetsOf(Nat)
  <2> TAKE n \in Nat
  <2>1. IsFiniteSet(0..n)
    BY FS_Interval
  <2> QED
    BY <2>1 DEF FiniteSubsetsOf
<1>2. F \subseteq FiniteSubsetsOf(Nat) /\ F # {}
  BY <1>1
<1>3. \E x \in F : \A y \in F : ~ (<<y, x>> \in StrictSubsetOrdering(Nat))
  <2> HIDE DEF F
  <2> QED
    BY <1>2, FS_StrictSubsetOrderingWellFounded, WFMin
<1>4. PICK n \in T : \A m \in T : ~ (<<0..m, 0..n>> \in StrictSubsetOrdering(Nat))
  BY <1>3
<1>5. \A m \in T : n <= m
  <2> SUFFICES ASSUME NEW m \in T, m < n PROVE FALSE
    OBVIOUS
  <2>1. n \in 0..n /\ n \notin 0..m
    OBVIOUS
  <2>2. 0..m \subseteq 0..n /\ 0..m # 0..n /\ 0..m \subseteq Nat /\ 0..n \subseteq Nat
    BY <2>1
  <2> QED
    BY <1>4, <2>2 DEF StrictSubsetOrdering
<1> QED
  BY <1>5

LEMMA MaxOf ==
    ASSUME NEW S, S \subseteq Nat, S # {}, NEW b \in Nat, \A x \in S : x <= b
    PROVE  Max(S) \in S /\ \A x \in S : x <= Max(S)
<1> DEFINE U == {n \in Nat : \A x \in S : x <= n}
<1>1. PICK u \in U : \A n \in U : u <= n
  BY LeastNatural
<1>2. u \in S
  <2> SUFFICES ASSUME u \notin S PROVE FALSE
    OBVIOUS
  <2>1. \A x \in S : x <= u - 1
    OBVIOUS
  <2>2. u - 1 \in Nat
    <3>1. PICK x \in S : TRUE
      OBVIOUS
    <3>2. x \in Nat /\ x <= u - 1 /\ u \in Nat
      BY <2>1
    <3> QED
      BY <3>2
  <2>3. u - 1 \in U
    BY <2>1, <2>2
  <2> QED
    BY <1>1, <2>3
<1>3. \E x \in S : \A y \in S : x >= y
  BY <1>2
<1>4. Max(S) \in S /\ \A y \in S : Max(S) >= y
  BY <1>3 DEF Max
<1> QED
  BY <1>4

LEMMA MaxIs ==
    ASSUME NEW S, S \subseteq Nat, NEW m \in S, \A x \in S : x <= m
    PROVE  Max(S) = m
<1>1. Max(S) \in S /\ \A x \in S : x <= Max(S)
  BY MaxOf
<1>2. Max(S) <= m /\ m <= Max(S) /\ m \in Nat /\ Max(S) \in Nat
  BY <1>1
<1> QED
  BY <1>2

(* A sequence, of whatever elements.                                       *)
IsSeq(s) == s \in Seq(Range(s))

LEMMA AppendIsSeq ==
    ASSUME NEW s, IsSeq(s), NEW x
    PROVE  /\ IsSeq(Append(s, x))
           /\ Len(s) \in Nat /\ DOMAIN s = 1..Len(s)
           /\ Len(Append(s, x)) = Len(s) + 1 /\ DOMAIN Append(s, x) = 1..Len(s)+1
           /\ Append(s, x)[Len(s)+1] = x
           /\ \A i \in 1..Len(s) : Append(s, x)[i] = s[i]
           /\ Range(Append(s, x)) = Range(s) \cup {x}
<1> DEFINE T == Range(s) \cup {x}
           t == Append(s, x)
<1>1. s \in Seq(T) /\ x \in T
  BY DEF IsSeq
<1> HIDE DEF T
<1>2. /\ t \in Seq(T) /\ Len(s) \in Nat /\ DOMAIN s = 1..Len(s)
      /\ Len(t) = Len(s) + 1 /\ DOMAIN t = 1..Len(s)+1
      /\ t[Len(s)+1] = x /\ \A i \in 1..Len(s) : t[i] = s[i]
  BY <1>1
<1> HIDE DEF t
<1>3. Range(t) = Range(s) \cup {x}
  <2>1. 1..Len(s)+1 = 1..Len(s) \cup {Len(s)+1}
    BY <1>2
  <2> QED
    BY <1>2, <2>1 DEF Range
<1>4. t \in Seq(Range(t))
  BY <1>2, <1>3 DEF T
<1> QED
  BY <1>2, <1>3, <1>4 DEF IsSeq, t

-----------------------------------------------------------------------------
(* Strict and tolerant reading.  Side by side the two readers have kept    *)
(* the same nodes as long as the strict one has not given up.              *)

Agree ==
    alive["strict"] => /\ alive["tolerant"]
                       /\ kept["strict"] = kept["tolerant"]
                       /\ value["strict"] = value["tolerant"]

LEMMA AgreeReading ==
    ASSUME Agree, ReadNode
    PROVE  Agree'
<1>1. PICK node :
        /\ alive' = [m \in Modes |-> alive[m] /\ ~Raises(m, node)]
        /\ kept' = [m \in Modes |->
             IF Keeps(m, node) THEN Append(kept[m], Len(nodes) + 1) ELSE kept[m]]
        /\ value' = value
  BY DEF ReadNode
<1>2. "strict" \in Modes /\ "tolerant" \in Modes
  BY DEF Modes
<1> SUFFICES ASSUME alive["strict"], ~Raises("strict", node)
             PROVE  Agree'
  BY <1>1, <1>2 DEF Agree
<1>3. alive["tolerant"] /\ kept["strict"] = kept["tolerant"] /\ value["strict"] = value["tolerant"]
  BY DEF Agree
<1>4. ~Raises("tolerant", node)
  BY DEF Raises, Verdict, BadStart, IsStrict
<1>5. Keeps("strict", node) <=> Keeps("tolerant", node)
  BY <1>3 DEF Keeps, Repeats
<1> QED
  BY <1>1, <1>2, <1>3, <1>4, <1>5 DEF Agree

(* A list that ends alike for both.                                        *)
LEMMA AgreeReturn ==
    ASSUME Agree, NEW fails, NEW out, NEW next, NEW rest, Return(fails, out, next, rest),
           /\ alive["strict"] /\ ~fails["strict"]
           => ~fails["tolerant"] /\ out["strict"] = out["tolerant"]
    PROVE  Agree'
<1>1. "strict" \in Modes /\ "tolerant" \in Modes
  BY DEF Modes
<1>2. /\ alive' = [m \in Modes |-> alive[m] /\ ~fails[m]]
      /\ value' = [m \in Modes |-> Append(value[m], out[m])]
      /\ kept' = kept \/ kept' = [m \in Modes |-> <<>>]
  BY DEF Return, Begin
<1> QED
  BY <1>1, <1>2 DEF Agree

LEMMA KeptAlike ==
    ASSUME kept["strict"] = kept["tolerant"]
    PROVE  /\ KeptNodes("strict") = KeptNodes("tolerant")
           /\ \A type : KeptOf("strict", type) = KeptOf("tolerant", type)
<1>1. KeptNodes("strict") = KeptNodes("tolerant")
  BY DEF KeptNodes
<1>2. ASSUME NEW type PROVE KeptOf("strict", type) = KeptOf("tolerant", type)
  BY <1>1 DEF KeptOf
<1> QED
  BY <1>1, <1>2

LEMMA AgreeStep == Agree /\ [Next]_vars => Agree'
<1> SUFFICES ASSUME Agree, [Next]_vars PROVE Agree'
  OBVIOUS
<1>0. /\ "strict" \in Modes /\ "tolerant" \in Modes
      /\ alive["strict"] => kept["strict"] = kept["tolerant"]
  BY DEF Modes, Agree
<1>1. CASE ReadNode
  BY <1>1, AgreeReading
<1>2. CASE EndRoot
  <2> DEFINE rooted(m)  == IdsOf(KeptOf(m, "SpaceRoot"))
             spaces(m) == IdsOf(KeptOf(m, "SpaceRef"))
             fails == [m \in Modes |->
               \/ Len(rooted(m)) # 1
               \/ spaces(m) = <<>>
               \/ Len(KeptOf(m, "FileDataListRef")) > 1
               \/ ~IsInjective(spaces(m))
               \/ rooted(m)[1] \notin Range(spaces(m))]
             out == [m \in Modes |-> [root |-> rooted(m), spaces |-> spaces(m)]]
  <2>1. \E next, rest : Return(fails, out, next, rest)
    BY <1>2 DEF EndRoot
  <2>2. alive["strict"] => fails["tolerant"] = fails["strict"] /\ out["strict"] = out["tolerant"]
    <3> SUFFICES ASSUME alive["strict"]
                 PROVE  fails["tolerant"] = fails["strict"] /\ out["strict"] = out["tolerant"]
      OBVIOUS
    <3>1. \A type : KeptOf("strict", type) = KeptOf("tolerant", type)
      BY <1>0, KeptAlike
    <3>2. rooted("strict") = rooted("tolerant") /\ spaces("strict") = spaces("tolerant")
      BY <3>1
    <3> HIDE DEF rooted, spaces
    <3> QED
      BY <1>0, <3>1, <3>2
  <2> HIDE DEF fails, out
  <2> QED
    BY <2>1, <2>2, AgreeReturn
<1>3. CASE EndSpace
  <2> DEFINE fails == [m \in Modes |-> kept[m] = <<>>]
             out == [m \in Modes |-> IF fails[m] THEN 0 ELSE Last(kept[m])]
  <2>1. \E next, rest : Return(fails, out, next, rest)
    BY <1>3 DEF EndSpace
  <2>2. alive["strict"] => fails["tolerant"] = fails["strict"] /\ out["strict"] = out["tolerant"]
    BY <1>0
  <2> HIDE DEF fails, out
  <2> QED
    BY <2>1, <2>2, AgreeReturn
<1>4. CASE EndRevisions
  <2> DEFINE fails == [m \in Modes |-> nodes = <<>>]
             out == [m \in Modes |-> Head(todo)]
  <2>1. \E next, rest : Return(fails, out, next, rest)
    BY <1>4 DEF EndRevisions
  <2>2. fails["tolerant"] = fails["strict"] /\ out["strict"] = out["tolerant"]
    BY <1>0
  <2> HIDE DEF fails, out
  <2> QED
    BY <2>1, <2>2, AgreeReturn
<1>5. CASE EndFiles
  <2> DEFINE fails == [m \in Modes |-> FALSE]
             out == [m \in Modes |-> {<<nodes[p].id, p>> : p \in Range(kept[m])}]
  <2>1. \E next, rest : Return(fails, out, next, rest)
    BY <1>5 DEF EndFiles
  <2>2. alive["strict"] => ~fails["tolerant"] /\ out["strict"] = out["tolerant"]
    BY <1>0
  <2> HIDE DEF fails, out
  <2> QED
    BY <2>1, <2>2, AgreeReturn
<1>6. CASE EndHashed
  <2> DEFINE chunks(m) == Sorted(KeptNodes(m))
             dups == [m \in Modes |-> ~IsInjective(IdsOf(chunks(m)))]
             index(m) == Index(chunks(m))
             fails == [m \in Modes |-> IsStrict(m) /\ dups[m]]
             out == [m \in Modes |-> index(m)]
  <2>1. \E next, rest : Return(fails, out, next, rest)
    BY <1>6 DEF EndHashed
  <2>2. ~fails["tolerant"]
    BY <1>0 DEF IsStrict
  <2>3. alive["strict"] => out["strict"] = out["tolerant"]
    <3> SUFFICES ASSUME alive["strict"] PROVE out["strict"] = out["tolerant"]
      OBVIOUS
    <3>1. chunks("strict") = chunks("tolerant")
      BY <1>0, KeptAlike
    <3>2. index("strict") = index("tolerant")
      BY <3>1
    <3> HIDE DEF index
    <3> QED
      BY <1>0, <3>2
  <2> HIDE DEF fails, out
  <2> QED
    BY <2>1, <2>2, <2>3, AgreeReturn
<1>7. CASE EndNode
  <2> DEFINE fails == [m \in Modes |-> FALSE]
             out == [m \in Modes |-> KeptNodes(m)]
  <2>1. \E next, rest : Return(fails, out, next, rest)
    BY <1>7 DEF EndNode
  <2>2. alive["strict"] => ~fails["tolerant"] /\ out["strict"] = out["tolerant"]
    BY <1>0, KeptAlike
  <2> HIDE DEF fails, out
  <2> QED
    BY <2>1, <2>2, AgreeReturn
<1>8. CASE Stop \/ UNCHANGED vars
  BY <1>8 DEF Stop, vars, Agree
<1> QED
  BY <1>1, <1>2, <1>3, <1>4, <1>5, <1>6, <1>7, <1>8 DEF Next

(* Whatever list strict mode reads to its end, tolerant mode reads to the  *)
(* same result, whichever lists are read one after the other.              *)
THEOREM TolerantLosesNothing == Spec => []StrictImpliesTolerant
<1>1. Init => Agree
  BY DEF Init, Modes, Agree
<1>2. Agree => StrictImpliesTolerant
  BY DEF Agree, StrictImpliesTolerant
<1> QED
  BY <1>1, <1>2, AgreeStep, PTL DEF Spec

-----------------------------------------------------------------------------
(* The file data store list.  Its readers keep the first typed reference   *)
(* to every object, at any time.                                           *)

IsReference(q, id) == nodes[q].type = "FileData" /\ nodes[q].id = id
Firsts ==
    {q \in DOMAIN nodes : /\ nodes[q].type = "FileData"
                          /\ \A o \in 1..q-1 : ~IsReference(o, nodes[q].id)}

FilesInv ==
    task = "files" =>
        /\ IsSeq(nodes)
        /\ \A m \in Modes : IsSeq(kept[m]) /\ Range(kept[m]) = Firsts
        /\ \A m \in Modes :
             value[m] = IF open THEN <<>> ELSE <<{<<nodes[p].id, p>> : p \in Firsts}>>

LEMMA HasFirst ==
    ASSUME IsSeq(nodes), NEW id, NEW q \in DOMAIN nodes, IsReference(q, id)
    PROVE  \E p \in Firsts : nodes[p].id = id
<1> DEFINE Q == {p \in DOMAIN nodes : IsReference(p, id)}
<1>1. DOMAIN nodes = 1..Len(nodes) /\ Len(nodes) \in Nat
  BY DEF IsSeq
<1>2. Q \subseteq Nat /\ Q # {}
  BY <1>1
<1>3. PICK p \in Q : \A x \in Q : p <= x
  BY <1>2, LeastNatural
<1>4. \A o \in 1..p-1 : o \in DOMAIN nodes /\ o \notin Q
  BY <1>1, <1>3
<1>5. p \in DOMAIN nodes /\ nodes[p].type = "FileData" /\ nodes[p].id = id
  BY DEF IsReference
<1> QED
  BY <1>4, <1>5 DEF Firsts

LEMMA FilesReading ==
    ASSUME FilesInv, ReadNode, task = "files"
    PROVE  FilesInv'
<1>1. PICK node :
        /\ nodes' = Append(nodes, node)
        /\ kept' = [m \in Modes |->
             IF Keeps(m, node) THEN Append(kept[m], Len(nodes) + 1) ELSE kept[m]]
        /\ UNCHANGED <<task, open, value>>
  BY DEF ReadNode
<1>2. open
  BY DEF ReadNode, Reading
<1>3. /\ IsSeq(nodes)
      /\ \A m \in Modes : IsSeq(kept[m]) /\ Range(kept[m]) = Firsts /\ value[m] = <<>>
  BY <1>2 DEF FilesInv
<1> DEFINE n == Len(nodes)
<1>4. /\ IsSeq(nodes') /\ n \in Nat /\ DOMAIN nodes = 1..n /\ DOMAIN nodes' = 1..n+1
      /\ nodes'[n+1] = node /\ \A i \in 1..n : nodes'[i] = nodes[i]
  BY <1>1, <1>3, AppendIsSeq
<1> DEFINE New == node.type = "FileData" /\ \A o \in 1..n : ~IsReference(o, node.id)
<1> HIDE DEF n
<1>5. \A m \in Modes : Keeps(m, node) <=> New
  <2> TAKE m \in Modes
  <2>1. node.type \in Wanted[task] <=> node.type = "FileData"
    BY DEF Wanted
  <2>2. Repeats(m, node) <=> \E p \in Firsts : nodes[p].id = node.id
    <3>1. Repeats(m, node) <=> \E i \in DOMAIN kept[m] : nodes[kept[m][i]].id = node.id
      BY DEF Repeats
    <3>2. Range(kept[m]) = {kept[m][i] : i \in DOMAIN kept[m]}
      BY DEF Range
    <3> QED
      BY <1>3, <3>1, <3>2
  <2>3. (\E p \in Firsts : nodes[p].id = node.id) <=> \E o \in 1..n : IsReference(o, node.id)
    <3>1. \A p \in Firsts : p \in 1..n /\ nodes[p].type = "FileData"
      BY <1>4 DEF Firsts
    <3>2. \A o \in 1..n : IsReference(o, node.id) => \E p \in Firsts : nodes[p].id = node.id
      BY <1>3, <1>4, HasFirst
    <3> QED
      BY <3>1, <3>2 DEF IsReference
  <2> QED
    BY <2>1, <2>2, <2>3 DEF Keeps
<1>6. Firsts' = IF New THEN Firsts \cup {n+1} ELSE Firsts
  <2>1. \A q \in 1..n : \A id : IsReference(q, id)' <=> IsReference(q, id)
    BY <1>4 DEF IsReference
  <2>2. \A q \in 1..n : q \in Firsts' <=> q \in Firsts
    <3> TAKE q \in 1..n
    <3>1. \A o \in 1..q-1 : o \in 1..n
      BY <1>4
    <3> QED
      BY <1>4, <2>1, <3>1 DEF Firsts
  <2>3. n+1 \in Firsts' <=> New
    <3>1. 1..(n+1)-1 = 1..n
      BY <1>4
    <3> QED
      BY <1>4, <2>1, <3>1 DEF Firsts
  <2>4. Firsts \subseteq 1..n /\ Firsts' \subseteq 1..n+1 /\ 1..n+1 = 1..n \cup {n+1}
    BY <1>4 DEF Firsts
  <2>5. n+1 \notin 1..n
    BY <1>4
  <2>6. CASE New
    <3>1. n+1 \in Firsts'
      BY <2>3, <2>6
    <3>2. Firsts' = Firsts \cup {n+1}
      BY <2>2, <2>4, <2>5, <3>1
    <3> QED
      BY <2>6, <3>2
  <2>7. CASE ~New
    <3>1. n+1 \notin Firsts'
      BY <2>3, <2>7
    <3>2. Firsts' = Firsts
      BY <2>2, <2>4, <2>5, <3>1
    <3> QED
      BY <2>7, <3>2
  <2> QED
    BY <2>6, <2>7
<1>7. \A m \in Modes : IsSeq(kept'[m]) /\ Range(kept'[m]) = Firsts'
  <2> TAKE m \in Modes
  <2>1. kept'[m] = IF New THEN Append(kept[m], n + 1) ELSE kept[m]
    BY <1>1, <1>5 DEF n
  <2>2. IsSeq(Append(kept[m], n + 1)) /\ Range(Append(kept[m], n + 1)) = Range(kept[m]) \cup {n+1}
    BY <1>3, AppendIsSeq
  <2> HIDE DEF New
  <2> QED
    BY <1>3, <1>6, <2>1, <2>2
<1> QED
  BY <1>1, <1>2, <1>3, <1>4, <1>7 DEF FilesInv

LEMMA FilesStep == FilesInv /\ [Next]_vars => FilesInv'
<1> SUFFICES ASSUME FilesInv, [Next]_vars, task' = "files" PROVE FilesInv'
  BY DEF FilesInv
<1>1. task = "files"
  BY DEF Next, vars, ReadNode, EndRoot, EndSpace, EndRevisions, EndFiles, EndHashed, EndNode, Stop,
     Return
<1>2. CASE ReadNode
  BY <1>1, <1>2, FilesReading
<1>3. CASE EndFiles
  <2>1. /\ open /\ open' = FALSE /\ UNCHANGED <<nodes, kept>>
        /\ value' = [m \in Modes |-> Append(value[m], {<<nodes[p].id, p>> : p \in Range(kept[m])})]
    BY <1>3 DEF EndFiles, Return, Begin, Reading
  <2>2. Firsts' = Firsts
    BY <2>1 DEF Firsts, IsReference
  <2>3. \A m \in Modes : /\ IsSeq(kept[m]) /\ Range(kept[m]) = Firsts /\ value[m] = <<>>
                         /\ value'[m] = <<{<<nodes[p].id, p>> : p \in Firsts}>>
    <3> TAKE m \in Modes
    <3>1. IsSeq(kept[m]) /\ Range(kept[m]) = Firsts /\ value[m] = <<>>
      BY <1>1, <2>1 DEF FilesInv
    <3>2. value'[m] = Append(<<>>, {<<nodes[p].id, p>> : p \in Firsts})
      BY <2>1, <3>1
    <3> QED
      BY <3>1, <3>2
  <2>4. {<<nodes[p].id, p>> : p \in Firsts}' = {<<nodes[p].id, p>> : p \in Firsts}
    BY <2>1, <2>2
  <2> QED
    BY <1>1, <2>1, <2>2, <2>3, <2>4 DEF FilesInv
<1>4. CASE UNCHANGED vars
  BY <1>4 DEF vars, FilesInv, Firsts, IsReference
<1> QED
  BY <1>1, <1>2, <1>3, <1>4 DEF Next, EndRoot, EndSpace, EndRevisions, EndHashed, EndNode, Stop

(* The index of the file data store has the first reference to each object *)
(* and no other, for a list of any length and whatever is between them.    *)
THEOREM FirstReferencesKept == Spec => []FirstReferenceCounts
<1>1. Init => FilesInv
  <2> SUFFICES ASSUME Init PROVE FilesInv
    OBVIOUS
  <2>1. /\ nodes = <<>> /\ \A m \in Modes : kept[m] = <<>> /\ value[m] = <<>>
        /\ open = TRUE
    BY DEF Init
  <2>2. IsSeq(<<>>) /\ Range(<<>>) = {}
    BY DEF IsSeq, Range
  <2>3. Firsts = {}
    BY <2>1 DEF Firsts
  <2> QED
    BY <2>1, <2>2, <2>3 DEF FilesInv
<1>2. FilesInv => FirstReferenceCounts
  <2> SUFFICES ASSUME FilesInv, task = "files", ~open, NEW m \in Modes
               PROVE  value[m][1] = {<<nodes[p].id, p>> : p \in Firsts}
    BY DEF FirstReferenceCounts, Firsts, IsReference
  <2> QED
    BY DEF FilesInv
<1> QED
  BY <1>1, <1>2, FilesStep, PTL DEF Spec

-----------------------------------------------------------------------------
(* The hashed chunk list.  Its index is made of the sorted chunks, and the *)
(* first of those of a blob has the least hash.                            *)

\* Chunks without more than is compared.
IsChunks(seq) ==
    DOMAIN seq = 1..Len(seq) /\ Len(seq) \in Nat
    /\ \A i \in DOMAIN seq : seq[i].id \in Nat /\ seq[i].hash \in Nat

(* The order of the first n chunks, given those: the next one is put in    *)
(* front of the first that comes after it.                                 *)
OrderOfFirst(p, seq, n) ==
    /\ p \in [1..n -> 1..n] /\ Range(p) = 1..n
    /\ \A i, j \in 1..n : i < j => ~Precedes(seq[p[j]], seq[p[i]])

LEMMA OrderGrows ==
    ASSUME NEW seq, IsChunks(seq), NEW n \in Nat, n + 1 \in 1..Len(seq), NEW p, OrderOfFirst(p, seq, n)
    PROVE  \E q : OrderOfFirst(q, seq, n + 1)
<1> DEFINE After == {i \in 1..n : Precedes(seq[n + 1], seq[p[i]])} \cup {n + 1}
<1>1. PICK k \in 1..(n + 1) : k \in After /\ \A i \in 1..n : i < k => ~Precedes(seq[n + 1], seq[p[i]])
  <2>1. After \subseteq Nat /\ n + 1 \in After
    OBVIOUS
  <2>2. PICK k \in After : \A i \in After : k <= i
    <3> HIDE DEF After
    <3> QED
      BY <2>1, LeastNatural
  <2>3. k \in 1..(n + 1)
    BY <2>2
  <2>4. \A i \in 1..n : i < k => ~Precedes(seq[n + 1], seq[p[i]])
    BY <2>2, <2>3
  <2> QED
    BY <2>2, <2>3, <2>4
<1> DEFINE q == [i \in 1..(n + 1) |-> IF i < k THEN p[i] ELSE IF i = k THEN n + 1 ELSE p[i - 1]]
<1>2. p \in [1..n -> 1..n] /\ \A v \in 1..n : \E i \in 1..n : p[i] = v
  BY DEF OrderOfFirst, Range
<1>3. q \in [1..(n + 1) -> 1..(n + 1)]
  <2> SUFFICES ASSUME NEW i \in 1..(n + 1) PROVE q[i] \in 1..(n + 1)
    OBVIOUS
  <2>1. CASE i < k
    BY <1>2, <2>1
  <2>2. CASE i = k
    BY <2>2
  <2>3. CASE i > k
    <3>1. i - 1 \in 1..n
      BY <2>3
    <3> QED
      BY <1>2, <2>3, <3>1
  <2> QED
    BY <2>1, <2>2, <2>3
<1>4. Range(q) = 1..(n + 1)
  <2>1. ASSUME NEW v \in 1..(n + 1) PROVE \E i \in 1..(n + 1) : q[i] = v
    <3>1. CASE v = n + 1
      BY <3>1
    <3>2. CASE v \in 1..n
      <4>1. PICK i \in 1..n : p[i] = v
        BY <1>2, <3>2
      <4>2. CASE i < k
        BY <4>1, <4>2
      <4>3. CASE i >= k
        <5>1. i + 1 \in 1..(n + 1) /\ i + 1 > k /\ (i + 1) - 1 = i
          BY <4>3
        <5>2. q[i + 1] = p[(i + 1) - 1]
          BY <5>1
        <5> QED
          BY <4>1, <5>1, <5>2
      <4> QED
        BY <4>2, <4>3
    <3> QED
      BY <3>1, <3>2
  <2> HIDE DEF q
  <2> QED
    BY <1>3, <2>1 DEF Range
<1>5. ASSUME NEW i \in 1..(n + 1), NEW j \in 1..(n + 1), i < j
      PROVE  ~Precedes(seq[q[j]], seq[q[i]])
  <2>1. \A a, b \in 1..n : a < b => ~Precedes(seq[p[b]], seq[p[a]])
    BY DEF OrderOfFirst
  <2>2. CASE j < k
    <3>1. i \in 1..n /\ j \in 1..n /\ i < k
      BY <1>5, <2>2
    <3> QED
      BY <1>5, <2>1, <2>2, <3>1
  <2>3. CASE j = k
    BY <1>1, <1>5, <2>3
  <2>4. CASE j > k /\ i < k
    <3>1. j - 1 \in 1..n /\ i \in 1..n /\ i < j - 1
      BY <2>4
    <3> QED
      BY <2>1, <2>4, <3>1
  <2>5. CASE j > k /\ i = k
    <3>1. j - 1 \in 1..n /\ k \in 1..n /\ k <= j - 1 /\ Precedes(seq[n + 1], seq[p[k]])
      BY <1>1, <2>5
    <3>2. PICK a, b, c : a = seq[n + 1] /\ b = seq[p[k]] /\ c = seq[p[j - 1]]
      OBVIOUS
    <3>3. \A m \in 1..n : p[m] \in DOMAIN seq
      BY <1>2 DEF IsChunks
    <3>4. /\ a.id \in Nat /\ a.hash \in Nat /\ b.id \in Nat /\ b.hash \in Nat
          /\ c.id \in Nat /\ c.hash \in Nat
      BY <3>1, <3>2, <3>3 DEF IsChunks
    <3>5. ~Precedes(c, b) \/ c = b
      <4>1. CASE k = j - 1
        BY <3>2, <4>1
      <4>2. CASE k < j - 1
        BY <2>1, <3>1, <3>2, <4>2
      <4> QED
        BY <3>1, <4>1, <4>2
    <3>6. ~Precedes(c, a)
      <4>1. Precedes(a, b)
        BY <3>1, <3>2
      <4>2. CASE c = b
        BY <3>4, <4>1, <4>2 DEF Precedes
      <4>3. CASE ~Precedes(c, b)
        BY <3>4, <4>1, <4>3 DEF Precedes
      <4> QED
        BY <3>5, <4>2, <4>3
    <3> QED
      BY <2>5, <3>2, <3>6
  <2>6. CASE j > k /\ i > k
    <3>1. j - 1 \in 1..n /\ i - 1 \in 1..n /\ i - 1 < j - 1
      BY <1>5, <2>6
    <3> QED
      BY <2>1, <2>6, <3>1
  <2> QED
    BY <2>2, <2>3, <2>4, <2>5, <2>6
<1> HIDE DEF q
<1> QED
  BY <1>3, <1>4, <1>5 DEF OrderOfFirst

(* So every list of chunks has an order, and Sorted is the list in it.     *)
LEMMA HasOrder ==
    ASSUME NEW seq, IsChunks(seq)
    PROVE  \E p \in [DOMAIN seq -> DOMAIN seq] : IsOrder(p, seq)
<1> DEFINE Bad == {n \in 0..Len(seq) : ~ \E p : OrderOfFirst(p, seq, n)}
<1>1. Bad \subseteq Nat
  OBVIOUS
<1>2. Bad = {}
  <2> SUFFICES ASSUME Bad # {} PROVE FALSE
    OBVIOUS
  <2>1. PICK n \in Bad : \A m \in Bad : n <= m
    <3> HIDE DEF Bad
    <3> QED
      BY <1>1, LeastNatural
  <2>2. n # 0
    <3>1. OrderOfFirst(<<>>, seq, 0)
      BY DEF OrderOfFirst, Range
    <3> QED
      BY <2>1, <3>1
  <2>3. n - 1 \in Nat /\ n - 1 < n /\ n - 1 \in 0..Len(seq) /\ n \in 1..Len(seq) /\ (n - 1) + 1 = n
    BY <2>1, <2>2 DEF IsChunks
  <2>4. n - 1 \notin Bad
    BY <2>1, <2>3
  <2>5. PICK p : OrderOfFirst(p, seq, n - 1)
    BY <2>3, <2>4
  <2>6. \E q : OrderOfFirst(q, seq, n)
    <3>1. \E q : OrderOfFirst(q, seq, (n - 1) + 1)
      BY <2>3, <2>5, OrderGrows
    <3> QED
      BY <2>3, <3>1
  <2> QED
    BY <2>1, <2>6
<1>3. PICK p : OrderOfFirst(p, seq, Len(seq))
  <2>1. Len(seq) \in 0..Len(seq)
    BY DEF IsChunks
  <2> QED
    BY <1>2, <2>1
<1>4. p \in [DOMAIN seq -> DOMAIN seq] /\ DOMAIN p = DOMAIN seq /\ Range(p) = DOMAIN seq
  BY <1>3 DEF OrderOfFirst, IsChunks
<1> QED
  BY <1>3, <1>4 DEF OrderOfFirst, IsOrder, IsChunks

LEMMA SortedIs ==
    ASSUME NEW seq, IsChunks(seq)
    PROVE  /\ IsChunks(Sorted(seq)) /\ Range(Sorted(seq)) = Range(seq)
           /\ \A i, j \in DOMAIN Sorted(seq) : i < j => ~Precedes(Sorted(seq)[j], Sorted(seq)[i])
<1>1. PICK p \in [DOMAIN seq -> DOMAIN seq] :
        IsOrder(p, seq) /\ Sorted(seq) = [i \in DOMAIN seq |-> seq[p[i]]]
  BY HasOrder DEF Sorted
<1>2. PICK s : s = Sorted(seq)
  OBVIOUS
<1>3. DOMAIN s = 1..Len(seq) /\ Len(seq) \in Nat /\ \A i \in 1..Len(seq) : s[i] = seq[p[i]]
  BY <1>1, <1>2 DEF IsChunks
<1>4. s \in Seq(Range(seq)) /\ Len(s) = Len(seq)
  <2>1. \A i \in 1..Len(seq) : s[i] \in Range(seq)
    BY <1>1, <1>3 DEF Range, IsChunks
  <2>2. s \in [1..Len(seq) -> Range(seq)]
    BY <1>1, <1>2, <1>3, <2>1 DEF IsChunks
  <2> QED
    BY <1>3, <2>2
<1>5. IsChunks(s)
  BY <1>1, <1>3, <1>4 DEF IsChunks
<1>6. Range(s) = Range(seq)
  <2>1. \A j \in DOMAIN seq : \E i \in 1..Len(seq) : p[i] = j
    BY <1>1 DEF IsOrder, Range, IsChunks
  <2>2. /\ DOMAIN seq = 1..Len(seq) /\ DOMAIN s = 1..Len(seq)
        /\ \A i \in 1..Len(seq) : p[i] \in 1..Len(seq) /\ s[i] = seq[p[i]]
    BY <1>1, <1>3 DEF IsChunks
  <2>3. \A j \in 1..Len(seq) : \E i \in 1..Len(seq) : s[i] = seq[j]
    BY <2>1, <2>2
  <2>4. Range(s) \subseteq Range(seq)
    BY <2>2 DEF Range
  <2>5. ASSUME NEW x \in Range(seq) PROVE x \in Range(s)
    <3>1. PICK j \in 1..Len(seq) : x = seq[j]
      BY <2>2, <2>5 DEF Range
    <3>2. PICK i \in 1..Len(seq) : s[i] = seq[j]
      BY <2>3
    <3> QED
      BY <2>2, <3>1, <3>2 DEF Range
  <2> QED
    BY <2>4, <2>5
<1>7. \A i, j \in DOMAIN s : i < j => ~Precedes(s[j], s[i])
  BY <1>1, <1>3 DEF IsOrder, IsChunks
<1> QED
  BY <1>2, <1>5, <1>6, <1>7

LEMMA MinOf ==
    ASSUME NEW S, S \subseteq Nat, S # {}
    PROVE  Min(S) \in S /\ \A x \in S : Min(S) <= x
<1>1. \E x \in S : \A y \in S : x <= y
  BY LeastNatural
<1> QED
  BY <1>1 DEF Min

LEMMA MinIs ==
    ASSUME NEW S, S \subseteq Nat, NEW m \in S, \A x \in S : m <= x
    PROVE  Min(S) = m
<1>1. Min(S) \in S /\ \A x \in S : Min(S) <= x
  BY MinOf
<1>2. Min(S) <= m /\ m <= Min(S) /\ m \in Nat /\ Min(S) \in Nat
  BY <1>1
<1> QED
  BY <1>2

LeastHashes(chunks) ==
    [id \in {c.id : c \in chunks} |-> Min({c.hash : c \in {d \in chunks : d.id = id}})]

LEMMA IndexIs ==
    ASSUME NEW seq, IsChunks(seq)
    PROVE  Index(Sorted(seq)) = LeastHashes(Range(seq))
<1>1. PICK s : /\ s = Sorted(seq) /\ IsChunks(s) /\ Range(s) = Range(seq)
               /\ \A i, j \in DOMAIN s : i < j => ~Precedes(s[j], s[i])
  BY SortedIs
<1>2. Range(IdsOf(s)) = {c.id : c \in Range(s)}
  BY <1>1 DEF IdsOf, Range
<1>3. ASSUME NEW id \in Range(IdsOf(s))
      PROVE  s[SelectInSeq(s, LAMBDA c : c.id = id)].hash
               = Min({c.hash : c \in {d \in Range(s) : d.id = id}})
  <2> DEFINE I == {i \in 1..Len(s) : s[i].id = id}
             H == {c.hash : c \in {d \in Range(s) : d.id = id}}
  <2>1. I \subseteq Nat /\ I # {}
    BY <1>1, <1>3 DEF IdsOf, Range, IsChunks
  <2>2. PICK k \in I : k = Min(I) /\ \A i \in I : k <= i
    <3> HIDE DEF I
    <3> QED
      BY <2>1, MinOf
  <2>3. SelectInSeq(s, LAMBDA c : c.id = id) = k
    BY <2>1, <2>2 DEF SelectInSeq
  <2>4. k \in DOMAIN s /\ s[k].id = id /\ s[k].hash \in Nat
    BY <1>1, <2>2 DEF IsChunks
  <2>5. \A i \in I : s[k].hash <= s[i].hash
    <3> SUFFICES ASSUME NEW i \in I, i # k PROVE s[k].hash <= s[i].hash
      BY <1>1, <2>4
    <3>1. i \in DOMAIN s /\ k < i /\ s[i].id = id /\ s[i].hash \in Nat
      <4>1. i \in 1..Len(s) /\ k \in 1..Len(s) /\ s[i].id = id
        OBVIOUS
      <4>2. k <= i
        BY <2>2
      <4>3. DOMAIN s = 1..Len(s) /\ Len(s) \in Nat /\ \A j \in DOMAIN s : s[j].hash \in Nat
        BY <1>1 DEF IsChunks
      <4> HIDE DEF I, H
      <4> QED
        BY <4>1, <4>2, <4>3
    <3>2. ~Precedes(s[i], s[k])
      BY <1>1, <2>4, <3>1
    <3> QED
      BY <2>4, <3>1, <3>2 DEF Precedes
  <2>6. \A h : h \in H <=> \E i \in I : h = s[i].hash
    BY <1>1 DEF Range, IsChunks
  <2>7. H \subseteq Nat /\ s[k].hash \in H /\ \A h \in H : s[k].hash <= h
    <3>1. \A i \in I : s[i].hash \in Nat
      BY <1>1 DEF IsChunks
    <3> HIDE DEF H, I
    <3> QED
      BY <2>2, <2>5, <2>6, <3>1
  <2>8. Min(H) = s[k].hash
    <3> HIDE DEF H
    <3> QED
      BY <2>7, MinIs
  <2> QED
    BY <2>3, <2>8
<1>4. Index(s) = LeastHashes(Range(s))
  BY <1>2, <1>3 DEF Index, LeastHashes
<1> QED
  BY <1>1, <1>4

(* What the reader has kept are the chunks of the list, in its order.      *)
Chunks       == {q \in DOMAIN nodes : nodes[q].type = "Chunk"}
ChunksOfList == {node \in Range(nodes) : node.type = "Chunk"}

HashedInv ==
    task = "hashed" =>
        /\ IsSeq(nodes)
        /\ \A q \in DOMAIN nodes : nodes[q].id \in Nat /\ nodes[q].hash \in Nat
        /\ \A m \in Modes : IsSeq(kept[m]) /\ Range(kept[m]) = Chunks
        /\ \A m \in Modes :
             value[m] = IF open THEN <<>> ELSE <<LeastHashes(ChunksOfList)>>

LEMMA NodeHasNumbers ==
    ASSUME task = "hashed", NEW node \in InputNodes
    PROVE  node.id \in Nat /\ node.hash \in Nat
<1>1. node \in ListNodes
  BY DEF InputNodes
<1>2. PICK x \in [type : InputTypes, id : Ids, size : Sizes, hash : {0} \cup Hashes] :
        node = [Good(x.type, x.id) EXCEPT !.size = x.size, !.hash = x.hash]
  BY <1>1 DEF ListNodes
<1>3. x.id \in Ids /\ x.hash \in {0} \cup Hashes
  OBVIOUS
<1>4. node.id = x.id /\ node.hash = x.hash
  BY <1>2 DEF Good
<1>5. Ids \subseteq Nat /\ {0} \cup Hashes \subseteq Nat
  BY Bounds
<1>6. x.id \in Nat /\ x.hash \in Nat
  BY <1>3, <1>5, Zenon
<1> QED
  BY <1>4, <1>6, Zenon

LEMMA HashedReading ==
    ASSUME HashedInv, ReadNode, task = "hashed"
    PROVE  HashedInv'
<1>1. PICK node \in InputNodes :
        /\ nodes' = Append(nodes, node)
        /\ kept' = [m \in Modes |->
             IF Keeps(m, node) THEN Append(kept[m], Len(nodes) + 1) ELSE kept[m]]
        /\ UNCHANGED <<task, open, value>>
  BY DEF ReadNode
<1>2. open
  BY DEF ReadNode, Reading
<1>3. /\ IsSeq(nodes) /\ \A q \in DOMAIN nodes : nodes[q].id \in Nat /\ nodes[q].hash \in Nat
      /\ \A m \in Modes : IsSeq(kept[m]) /\ Range(kept[m]) = Chunks /\ value[m] = <<>>
  BY <1>2 DEF HashedInv
<1> DEFINE n == Len(nodes)
<1>4. /\ IsSeq(nodes') /\ n \in Nat /\ DOMAIN nodes = 1..n /\ DOMAIN nodes' = 1..n+1
      /\ nodes'[n+1] = node /\ \A i \in 1..n : nodes'[i] = nodes[i]
  BY <1>1, <1>3, AppendIsSeq
<1> HIDE DEF n
<1>5. \A m \in Modes : Keeps(m, node) <=> node.type = "Chunk"
  BY DEF Keeps, Repeats, Wanted
<1>6. 1..n+1 = 1..n \cup {n+1} /\ n+1 \notin 1..n
  BY <1>4
<1>7. Chunks' = IF node.type = "Chunk" THEN Chunks \cup {n+1} ELSE Chunks
  BY <1>4, <1>6 DEF Chunks
<1>8. \A q \in DOMAIN nodes' : nodes'[q].id \in Nat /\ nodes'[q].hash \in Nat
  <2>1. node.id \in Nat /\ node.hash \in Nat
    BY NodeHasNumbers
  <2> QED
    BY <1>3, <1>4, <1>6, <2>1
<1>9. \A m \in Modes : IsSeq(kept'[m]) /\ Range(kept'[m]) = Chunks'
  <2> TAKE m \in Modes
  <2>1. kept'[m] = IF node.type = "Chunk" THEN Append(kept[m], n + 1) ELSE kept[m]
    BY <1>1, <1>5 DEF n
  <2>2. IsSeq(Append(kept[m], n + 1)) /\ Range(Append(kept[m], n + 1)) = Range(kept[m]) \cup {n+1}
    BY <1>3, AppendIsSeq
  <2> QED
    BY <1>3, <1>7, <2>1, <2>2
<1> QED
  BY <1>1, <1>2, <1>3, <1>4, <1>8, <1>9 DEF HashedInv

LEMMA KeptAreChunks ==
    ASSUME HashedInv, task = "hashed", NEW m \in Modes
    PROVE  IsChunks(KeptNodes(m)) /\ Range(KeptNodes(m)) = ChunksOfList
<1>1. /\ IsSeq(kept[m]) /\ Range(kept[m]) = Chunks
      /\ \A q \in DOMAIN nodes : nodes[q].id \in Nat /\ nodes[q].hash \in Nat
  BY DEF HashedInv
<1>2. PICK k : k = kept[m]
  OBVIOUS
<1>3. k \in Seq(Range(k)) /\ Range(k) = Chunks /\ DOMAIN k = 1..Len(k) /\ Len(k) \in Nat
  BY <1>1, <1>2, LenProperties DEF IsSeq
<1>4. PICK s : s = KeptNodes(m)
  OBVIOUS
<1>5. s = [i \in 1..Len(k) |-> nodes[k[i]]]
  BY <1>2, <1>3, <1>4 DEF KeptNodes
<1>6. \A i \in 1..Len(k) : k[i] \in Chunks
  BY <1>3 DEF Range
<1>7. Len(s) = Len(k) /\ DOMAIN s = 1..Len(k)
  <2>1. s \in [1..Len(k) -> {nodes[q] : q \in Chunks}]
    BY <1>5, <1>6
  <2> QED
    BY <1>3, <1>5, <2>1
<1>8. IsChunks(s)
  BY <1>1, <1>3, <1>5, <1>6, <1>7 DEF IsChunks, Chunks
<1>9. Range(s) = ChunksOfList
  <2>1. ASSUME NEW x \in Range(s) PROVE x \in ChunksOfList
    BY <1>5, <1>6, <2>1 DEF Range, ChunksOfList, Chunks
  <2>2. ASSUME NEW x \in ChunksOfList PROVE x \in Range(s)
    <3>1. PICK q \in DOMAIN nodes : x = nodes[q] /\ nodes[q].type = "Chunk"
      BY <2>2 DEF ChunksOfList, Range
    <3>2. PICK i \in 1..Len(k) : k[i] = q
      BY <1>3, <3>1 DEF Range, Chunks
    <3> QED
      BY <1>5, <3>1, <3>2 DEF Range
  <2> QED
    BY <2>1, <2>2
<1> QED
  BY <1>4, <1>8, <1>9

LEMMA HashedStep == HashedInv /\ [Next]_vars => HashedInv'
<1> SUFFICES ASSUME HashedInv, [Next]_vars, task' = "hashed" PROVE HashedInv'
  BY DEF HashedInv
<1>1. task = "hashed"
  BY DEF Next, vars, ReadNode, EndRoot, EndSpace, EndRevisions, EndFiles, EndHashed, EndNode, Stop,
     Return
<1>2. CASE ReadNode
  BY <1>1, <1>2, HashedReading
<1>3. CASE EndHashed
  <2>1. /\ open /\ open' = FALSE /\ UNCHANGED <<nodes, kept>>
        /\ value' = [m \in Modes |-> Append(value[m], Index(Sorted(KeptNodes(m))))]
    BY <1>3 DEF EndHashed, Return, Begin, Reading
  <2>2. Chunks' = Chunks /\ ChunksOfList' = ChunksOfList
    BY <2>1 DEF Chunks, ChunksOfList
  <2>3. \A m \in Modes : value'[m] = <<LeastHashes(ChunksOfList)>>
    <3> TAKE m \in Modes
    <3>1. value[m] = <<>>
      BY <1>1, <2>1 DEF HashedInv
    <3>2. IsChunks(KeptNodes(m)) /\ Range(KeptNodes(m)) = ChunksOfList
      BY <1>1, KeptAreChunks
    <3>3. Index(Sorted(KeptNodes(m))) = LeastHashes(ChunksOfList)
      BY <3>2, IndexIs
    <3>4. value'[m] = Append(<<>>, LeastHashes(ChunksOfList))
      BY <2>1, <3>1, <3>3
    <3> QED
      BY <3>4
  <2> QED
    BY <1>1, <2>1, <2>2, <2>3 DEF HashedInv
<1>4. CASE UNCHANGED vars
  BY <1>4 DEF vars, HashedInv, Chunks, ChunksOfList
<1> QED
  BY <1>1, <1>2, <1>3, <1>4 DEF Next, EndRoot, EndSpace, EndRevisions, EndFiles, EndNode, Stop

(* The index of the hashed chunks depends on which chunks a list has and   *)
(* not on their order, for lists of any length: of several hashes of one   *)
(* blob it has the least.                                                  *)
THEOREM OrderIgnored == Spec => []IndexIgnoresOrder
<1>1. Init => HashedInv
  <2> SUFFICES ASSUME Init PROVE HashedInv
    OBVIOUS
  <2>1. /\ nodes = <<>> /\ \A m \in Modes : kept[m] = <<>> /\ value[m] = <<>>
        /\ open = TRUE
    BY DEF Init
  <2>2. IsSeq(<<>>) /\ Range(<<>>) = {} /\ DOMAIN <<>> = {}
    BY DEF IsSeq, Range
  <2>3. Chunks = {}
    BY <2>1, <2>2 DEF Chunks
  <2> QED
    BY <2>1, <2>2, <2>3 DEF HashedInv
<1>2. HashedInv => IndexIgnoresOrder
  <2> SUFFICES ASSUME HashedInv, task = "hashed", ~open, NEW m \in Modes
               PROVE  value[m][1] = LeastHashes(ChunksOfList)
    BY DEF IndexIgnoresOrder, LeastHashes, ChunksOfList
  <2> QED
    BY DEF HashedInv
<1> QED
  BY <1>1, <1>2, HashedStep, PTL DEF Spec

-----------------------------------------------------------------------------
(* The content of a manifest.  The places below Len(seen) are those of the *)
(* nodes read; a list is numbered by the group it belongs to, from 1 on,   *)
(* and no node of a later group has been read yet.                         *)

Places ==
    /\ IsSeq(seen)
    /\ groups \in Nat
    /\ where = "group" => groups > 0
    /\ \A i \in 1..Len(seen) : seen[i].list \in 0..groups

(* The steps that read a node, and what it is.                             *)
Sees(type, list, s) == seen' = Append(seen, [type |-> type, list |-> list, sig |-> s])

LEMMA Seen ==
    ASSUME Places, NEW type, NEW list, NEW s, Sees(type, list, s)
    PROVE  /\ IsSeq(seen') /\ Len(seen) \in Nat /\ Len(seen') = Len(seen) + 1
           /\ DOMAIN seen = 1..Len(seen) /\ DOMAIN seen' = 1..Len(seen)+1
           /\ seen'[Len(seen)+1] = [type |-> type, list |-> list, sig |-> s]
           /\ \A i \in 1..Len(seen) : seen'[i] = seen[i]
BY AppendIsSeq DEF Places, Sees

ReadsNode ==
    \E type, s : Sees(type, ListOf(where), s)

LEMMA StepReads ==
    ASSUME [ContentNext]_contentVars
    PROVE  seen' = seen \/ ReadsNode
BY DEF ContentNext, contentVars, RejectUnpaired, SkipNode, ReadOverrides, ReadSignature, ReadGroupRef,
   StartGroup, RejectGroup, SkipInGroup, ChangeInGroup, EndMark, EndGroup, StartTable, ReadEntry,
   RejectEntry, EndTable, ReadRoot3, ReadRoot2, ReadChange, EndContent, ContentStop, InManifest,
   InGroup, InTable, See, Sees, ReadsNode

LEMMA StepGroups ==
    ASSUME [ContentNext]_contentVars
    PROVE  \/ ReadGroupRef /\ groups' = groups + 1 /\ where' = "group"
           \/ groups' = groups /\ (where' = "group" => where = "group")
BY DEF ContentNext, contentVars, content, RejectUnpaired, SkipNode, ReadOverrides, ReadSignature,
   ReadGroupRef, StartGroup, RejectGroup, SkipInGroup, ChangeInGroup, EndMark, EndGroup, StartTable,
   ReadEntry, RejectEntry, EndTable, ReadRoot3, ReadRoot2, ReadChange, EndContent, ContentStop,
   InManifest, InGroup, InTable, Fail

LEMMA PlacesStep == Places /\ [ContentNext]_contentVars => Places'
<1> SUFFICES ASSUME Places, [ContentNext]_contentVars PROVE Places'
  OBVIOUS
<1>1. /\ groups' \in Nat /\ groups <= groups' /\ groups \in Nat
      /\ where' = "group" => groups' > 0
  BY StepGroups DEF Places
<1>2. CASE seen' = seen
  <2>1. \A i \in 1..Len(seen) : seen[i].list \in 0..groups'
    BY <1>1 DEF Places
  <2> QED
    BY <1>1, <1>2, <2>1 DEF Places
<1>3. CASE ReadsNode
  <2>1. PICK type, s : Sees(type, ListOf(where), s)
    BY <1>3 DEF ReadsNode
  <2>2. ListOf(where) \in 0..groups
    BY DEF ListOf, Places
  <2>3. /\ IsSeq(seen') /\ Len(seen) \in Nat /\ Len(seen') = Len(seen) + 1
        /\ seen'[Len(seen)+1] = [type |-> type, list |-> ListOf(where), sig |-> s]
        /\ \A i \in 1..Len(seen) : seen'[i] = seen[i]
    BY <2>1, Seen
  <2>4. \A i \in 1..Len(seen') : seen'[i].list \in 0..groups'
    <3> TAKE i \in 1..Len(seen')
    <3>1. i \in 1..Len(seen) \/ i = Len(seen) + 1
      BY <2>3
    <3>2. seen'[i].list \in 0..groups
      BY <2>2, <2>3, <3>1 DEF Places
    <3> QED
      BY <1>1, <3>2
  <2> QED
    BY <1>1, <2>3, <2>4 DEF Places
<1> QED
  BY <1>2, <1>3, StepReads

-----------------------------------------------------------------------------
(* Signature groups.                                                       *)

LEMMA SigAfter ==
    ASSUME Places, NEW type, NEW s, NEW l, Sees(type, l, s), NEW list
    PROVE  SigBefore(list, Len(seen)+1)' =
             IF type = "Signature" /\ l = list THEN s ELSE SigBefore(list, Len(seen)+1)
<1> DEFINE n == Len(seen)
           Old == {q \in 1..n : seen[q].type = "Signature" /\ seen[q].list = list}
           New == {q \in 1..n+1 : seen'[q].type = "Signature" /\ seen'[q].list = list}
<1>1. /\ n \in Nat /\ Len(seen') = n + 1 /\ seen'[n+1] = [type |-> type, list |-> l, sig |-> s]
      /\ \A i \in 1..n : seen'[i] = seen[i]
      /\ 1..n+1 = 1..n \cup {n+1} /\ (n+1)-1 = n /\ (n+2)-1 = n+1
  BY Seen
<1>2. /\ SigBefore(list, Len(seen)+1) = IF Old = {} THEN NoSignature ELSE seen[Max(Old)].sig
      /\ SigBefore(list, Len(seen)+1)' = IF New = {} THEN NoSignature ELSE seen'[Max(New)].sig
  BY <1>1 DEF SigBefore
<1>3. CASE type = "Signature" /\ l = list
  <2>1. n+1 \in New /\ New \subseteq Nat /\ \A q \in New : q <= n+1
    BY <1>1, <1>3
  <2>2. Max(New) = n+1
    BY <2>1, MaxIs
  <2> QED
    BY <1>1, <1>2, <1>3, <2>1, <2>2
<1>4. CASE ~(type = "Signature" /\ l = list)
  <2>1. New = Old
    BY <1>1, <1>4
  <2>2. Old # {} => Max(Old) \in 1..n
    <3>1. Old \subseteq Nat /\ \A q \in Old : q <= n
      BY <1>1
    <3>2. Old # {} => Max(Old) \in Old
      BY <1>1, <3>1, MaxOf
    <3> QED
      BY <3>2
  <2> HIDE DEF Old, New
  <2> QED
    BY <1>1, <1>2, <1>4, <2>1, <2>2
<1> QED
  BY <1>3, <1>4

LEMMA SigKeeps ==
    ASSUME Places, NEW type, NEW s, NEW l, Sees(type, l, s),
           NEW list, NEW k \in 1..Len(seen)+1
    PROVE  SigBefore(list, k)' = SigBefore(list, k)
<1> DEFINE B == {q \in 1..k-1 : seen[q].type = "Signature" /\ seen[q].list = list}
<1>1. Len(seen) \in Nat /\ \A i \in 1..Len(seen) : seen'[i] = seen[i]
  BY Seen
<1>2. \A i \in 1..k-1 : i \in 1..Len(seen) /\ seen'[i] = seen[i]
  BY <1>1
<1>3. B = {q \in 1..k-1 : seen'[q].type = "Signature" /\ seen'[q].list = list}
  BY <1>2
<1>4. B # {} => Max(B) \in 1..k-1
  <2>1. B \subseteq Nat /\ k \in Nat /\ \A q \in B : q <= k
    BY <1>1
  <2>2. B # {} => Max(B) \in B
    BY <2>1, MaxOf
  <2> QED
    BY <2>2
<1>5. /\ SigBefore(list, k) = IF B = {} THEN NoSignature ELSE seen[Max(B)].sig
      /\ SigBefore(list, k)' = IF B = {} THEN NoSignature ELSE seen'[Max(B)].sig
  BY <1>3 DEF SigBefore
<1> HIDE DEF B
<1> QED
  BY <1>2, <1>4, <1>5

SigInv ==
    /\ DOMAIN sig = {"group", "manifest"} /\ sig = [x \in DOMAIN sig |-> sig[x]]
    /\ sig.manifest = SigBefore(0, Len(seen)+1)
    /\ where = "group" => sig.group = SigBefore(groups, Len(seen)+1)
    /\ IsSeq(changes)
    /\ \A c \in Range(changes) : c.at \in 1..Len(seen)
    /\ SignaturesReplay

(* The ways a step has with signature groups and changes.                  *)
StaysPut == groups' = groups /\ (where' = "group" => where = "group")
LEMMA StepSigs ==
    ASSUME [ContentNext]_contentVars
    PROVE  \/ UNCHANGED <<seen, sig, changes>> /\ StaysPut
           \/ /\ \E type : type # "Signature" /\ Sees(type, ListOf(where), NoSignature)
              /\ UNCHANGED <<sig, changes>> /\ StaysPut
           \/ /\ \E s : /\ Sees("Signature", ListOf(where), s)
                        /\ sig' = [sig EXCEPT ![where] = s]
              /\ where \in {"manifest", "group"} /\ UNCHANGED changes /\ StaysPut
           \/ /\ where = "manifest" /\ Sees("GroupRef", 0, NoSignature)
              /\ sig' = SigsAtGroup /\ UNCHANGED changes
              /\ groups' = groups + 1 /\ where' = "group"
           \/ /\ Sees("Declaration", ListOf(where), NoSignature)
              /\ where \in {"manifest", "group"} /\ UNCHANGED sig /\ StaysPut
              /\ changes' = Append(changes, [at |-> Len(seen) + 1, sig |-> sig[where]])
<1> USE DEF StaysPut, InManifest, InGroup, InTable, See, Sees, content, ListOf, Fail
<1>1. CASE ReadSignature
  BY <1>1 DEF ReadSignature
<1>2. CASE ReadGroupRef
  BY <1>2 DEF ReadGroupRef
<1>3. CASE ReadChange
  BY <1>3 DEF ReadChange
<1>4. CASE ChangeInGroup
  BY <1>4 DEF ChangeInGroup
<1>5. CASE EndGroup \/ EndContent \/ ContentStop \/ UNCHANGED contentVars
  BY <1>5 DEF EndGroup, EndContent, ContentStop, contentVars
<1>6. CASE RejectUnpaired \/ SkipNode \/ ReadOverrides \/ StartGroup \/ RejectGroup \/ SkipInGroup
  BY <1>6 DEF RejectUnpaired, SkipNode, ReadOverrides, StartGroup, RejectGroup, SkipInGroup
<1>7. CASE EndMark \/ StartTable \/ ReadEntry \/ RejectEntry \/ EndTable \/ ReadRoot3 \/ ReadRoot2
  BY <1>7 DEF EndMark, StartTable, ReadEntry, RejectEntry, EndTable, ReadRoot3, ReadRoot2
<1> QED
  BY <1>1, <1>2, <1>3, <1>4, <1>5, <1>6, <1>7 DEF ContentNext

LEMMA SigNone ==
    ASSUME Places, NEW list, list \in Nat, list > groups
    PROVE  SigBefore(list, Len(seen)+1) = NoSignature
<1>1. Len(seen) \in Nat /\ (Len(seen)+1)-1 = Len(seen)
  BY DEF Places, IsSeq
<1>2. {q \in 1..Len(seen) : seen[q].type = "Signature" /\ seen[q].list = list} = {}
  BY DEF Places
<1> QED
  BY <1>1, <1>2 DEF SigBefore

(* Changes read before a step keep what SigInv says of them.               *)
LEMMA OldChanges ==
    ASSUME Places, SigInv, NEW type, NEW s, NEW l, Sees(type, l, s), NEW c \in Range(changes)
    PROVE  /\ c.at \in 1..Len(seen')
           /\ c.sig = SigBefore(seen[c.at].list, c.at)'
<1>1. c.at \in 1..Len(seen) /\ c.sig = SigBefore(seen[c.at].list, c.at)
  BY DEF SigInv, SignaturesReplay
<1>2. Len(seen) \in Nat /\ Len(seen') = Len(seen)+1 /\ seen'[c.at] = seen[c.at]
  BY <1>1, Seen
<1>3. PICK list : list = seen[c.at].list
  OBVIOUS
<1>4. PICK k : k = c.at
  OBVIOUS
<1>5. k \in 1..Len(seen)+1
  BY <1>1, <1>2, <1>4
<1>6. SigBefore(list, k)' = SigBefore(list, k)
  BY <1>5, SigKeeps
<1>7. SigBefore(seen[c.at].list, c.at)' = SigBefore(list, k)'
  BY <1>2, <1>3, <1>4
<1> QED
  BY <1>1, <1>2, <1>3, <1>4, <1>6, <1>7

LEMMA SigStep == Places /\ SigInv /\ [ContentNext]_contentVars => SigInv'
<1> SUFFICES ASSUME Places, SigInv, [ContentNext]_contentVars PROVE SigInv'
  OBVIOUS
<1> DEFINE n == Len(seen)
<1>1. /\ DOMAIN sig = {"group", "manifest"} /\ sig = [x \in DOMAIN sig |-> sig[x]]
      /\ sig.manifest = SigBefore(0, n+1)
      /\ where = "group" => sig.group = SigBefore(groups, n+1)
      /\ IsSeq(changes) /\ groups \in Nat /\ n \in Nat
      /\ where = "group" => groups > 0
  BY DEF SigInv, Places, IsSeq
<1>2. CASE UNCHANGED <<seen, sig, changes>> /\ StaysPut
  BY <1>2 DEF SigInv, StaysPut, SignaturesReplay, SigBefore
<1>3. ASSUME NEW type, NEW s, Sees(type, ListOf(where), s), UNCHANGED changes
      PROVE  /\ IsSeq(changes')
             /\ \A c \in Range(changes') : c.at \in 1..Len(seen')
             /\ SignaturesReplay'
  BY <1>1, <1>3, OldChanges DEF SignaturesReplay
<1>4. CASE /\ \E type : type # "Signature" /\ Sees(type, ListOf(where), NoSignature)
           /\ UNCHANGED <<sig, changes>> /\ StaysPut
  <2>1. PICK type : type # "Signature" /\ Sees(type, ListOf(where), NoSignature)
    BY <1>4
  <2>2. \A list : SigBefore(list, n+1)' = SigBefore(list, n+1)
    BY <2>1, SigAfter
  <2>3. SigBefore(groups, n+1)' = SigBefore(groups, n+1)
    <3>1. PICK g : g = groups
      OBVIOUS
    <3>2. groups' = g
      BY <1>4, <3>1 DEF StaysPut
    <3> QED
      BY <2>2, <3>1, <3>2
  <2>4. SigBefore(0, n+1)' = SigBefore(0, n+1)
    BY <2>2
  <2> QED
    BY <1>1, <1>3, <1>4, <2>1, <2>3, <2>4 DEF SigInv, StaysPut
<1>5. CASE /\ \E s : /\ Sees("Signature", ListOf(where), s)
                     /\ sig' = [sig EXCEPT ![where] = s]
           /\ where \in {"manifest", "group"} /\ UNCHANGED changes /\ StaysPut
  <2>1. PICK s : Sees("Signature", ListOf(where), s) /\ sig' = [sig EXCEPT ![where] = s]
    BY <1>5
  <2>2. PICK g : g = groups
    OBVIOUS
  <2>3. groups' = g /\ (where' = "group" => where = "group")
    BY <1>5, <2>2 DEF StaysPut
  <2>4. \A list : SigBefore(list, n+1)' = IF ListOf(where) = list THEN s ELSE SigBefore(list, n+1)
    BY <2>1, SigAfter
  <2>5. SigBefore(groups, n+1)' = SigBefore(g, n+1)'
    BY <2>3
  <2>6. /\ DOMAIN sig' = {"group", "manifest"} /\ sig' = [x \in DOMAIN sig' |-> sig'[x]]
        /\ where = "manifest" => sig'.manifest = s
        /\ where = "group" => sig'.group = s /\ sig'.manifest = sig.manifest
    BY <1>1, <2>1
  <2>7. sig'.manifest = SigBefore(0, n+1)'
    BY <1>1, <1>5, <2>4, <2>6 DEF ListOf
  <2>8. where' = "group" => sig'.group = SigBefore(groups, n+1)'
    BY <1>1, <2>2, <2>3, <2>4, <2>5, <2>6 DEF ListOf
  <2> QED
    BY <1>3, <1>5, <2>1, <2>6, <2>7, <2>8 DEF SigInv
<1>6. CASE /\ where = "manifest" /\ Sees("GroupRef", 0, NoSignature)
           /\ sig' = SigsAtGroup /\ UNCHANGED changes
           /\ groups' = groups + 1 /\ where' = "group"
  <2>1. \A list : SigBefore(list, n+1)' = SigBefore(list, n+1)
    BY <1>6, SigAfter
  <2>2. PICK g : g = groups + 1
    OBVIOUS
  <2>3. SigBefore(groups, n+1)' = SigBefore(g, n+1)'
    BY <1>6, <2>2
  <2>4. SigBefore(g, n+1) = NoSignature
    BY <1>1, <2>2, SigNone
  <2>5. SigBefore(groups, n+1)' = NoSignature /\ SigBefore(0, n+1)' = SigBefore(0, n+1)
    BY <2>1, <2>3, <2>4
  <2>6. /\ DOMAIN sig' = {"group", "manifest"} /\ sig' = [x \in DOMAIN sig' |-> sig'[x]]
        /\ sig'.group = NoSignature /\ sig'.manifest = sig.manifest
    BY <1>1, <1>6 DEF SigsAtGroup
  <2>7. ListOf(where) = 0
    BY <1>6 DEF ListOf
  <2> QED
    BY <1>1, <1>3, <1>6, <2>5, <2>6, <2>7 DEF SigInv
<1>7. CASE /\ Sees("Declaration", ListOf(where), NoSignature)
           /\ where \in {"manifest", "group"} /\ UNCHANGED sig /\ StaysPut
           /\ changes' = Append(changes, [at |-> Len(seen) + 1, sig |-> sig[where]])
  <2> DEFINE new == [at |-> n + 1, sig |-> sig[where]]
  <2>1. \A list : SigBefore(list, n+1)' = SigBefore(list, n+1)
    BY <1>7, SigAfter
  <2>2. PICK g, l : g = groups /\ l = ListOf(where)
    OBVIOUS
  <2>3. groups' = g /\ (where' = "group" => where = "group")
    BY <1>7, <2>2 DEF StaysPut
  <2>4. SigBefore(groups, n+1)' = SigBefore(g, n+1)' /\ SigBefore(0, n+1)' = SigBefore(0, n+1)
    BY <2>1, <2>3
  <2>5. /\ Len(seen') = n + 1 /\ seen'[n+1].list = l
        /\ \A i \in 1..n : seen'[i] = seen[i]
    <3>1. Sees("Declaration", l, NoSignature)
      BY <1>7, <2>2
    <3>2. /\ Len(seen') = n + 1
          /\ seen'[n+1] = [type |-> "Declaration", list |-> l, sig |-> NoSignature]
          /\ \A i \in 1..n : seen'[i] = seen[i]
      BY <3>1, Seen
    <3> QED
      BY <3>2
  <2>6. IsSeq(changes') /\ Range(changes') = Range(changes) \cup {new}
    BY <1>1, <1>7, AppendIsSeq
  <2>7. sig[where] = SigBefore(l, n+1)
    BY <1>1, <1>7, <2>2 DEF ListOf
  <2>8. PICK c : c = new
    OBVIOUS
  <2>9. c.at \in 1..Len(seen') /\ c.sig = SigBefore(seen[c.at].list, c.at)'
    <3>1. PICK k : k = n+1
      OBVIOUS
    <3>2. c.at = k /\ seen'[c.at].list = l
      BY <2>5, <2>8, <3>1
    <3>3. SigBefore(seen[c.at].list, c.at)' = SigBefore(l, k)'
      BY <3>2
    <3>4. SigBefore(l, k)' = SigBefore(l, n+1)
      <4>1. k \in 1..n+1
        BY <1>1, <3>1
      <4> QED
        BY <1>7, <3>1, <4>1, SigKeeps
    <3> QED
      BY <1>1, <2>5, <2>7, <2>8, <3>1, <3>2, <3>3, <3>4
  <2>10. \A d \in Range(changes') : /\ d.at \in 1..Len(seen')
                                    /\ d.sig = SigBefore(seen[d.at].list, d.at)'
    BY <1>7, <2>6, <2>8, <2>9, OldChanges
  <2> QED
    BY <1>1, <1>7, <2>1, <2>2, <2>3, <2>4, <2>6, <2>10 DEF SigInv, SignaturesReplay
<1> QED
  BY <1>2, <1>4, <1>5, <1>6, <1>7, StepSigs

LEMMA EmptyIsSeq == IsSeq(<<>>) /\ Range(<<>>) = {} /\ Len(<<>>) = 0
BY DEF IsSeq, Range

LEMMA PlacesAtStart == ContentInit => Places
BY EmptyIsSeq DEF ContentInit, Places

(* Every change carries the signature group its own list last defined,     *)
(* however many groups and changes a manifest has.                         *)
THEOREM SignatureOfOwnList == ContentSpec => []SignaturesReplay
<1>1. ContentInit => SigInv
  <2> SUFFICES ASSUME ContentInit PROVE SigInv
    OBVIOUS
  <2>1. seen = <<>> /\ changes = <<>> /\ where = "manifest"
        /\ sig = [group |-> NoSignature, manifest |-> NoSignature]
    BY DEF ContentInit
  <2>2. SigBefore(0, Len(seen)+1) = NoSignature
    BY <2>1, EmptyIsSeq DEF SigBefore
  <2> QED
    BY <2>1, <2>2, EmptyIsSeq DEF SigInv, SignaturesReplay
<1>2. Places /\ SigInv => SignaturesReplay
  BY DEF SigInv
<1> QED
  BY <1>1, <1>2, PlacesAtStart, PlacesStep, SigStep, PTL DEF ContentSpec

-----------------------------------------------------------------------------
(* The order of the parts.  What a manifest that was not refused may still *)
(* read depends on phase, table and awaits; each stands for what the nodes *)
(* of the manifest read so far are.                                        *)

(* No node of the manifest since node i.                                   *)
IsLast(i) == (i+1)..Len(seen) \cap NodesIn(0) = {}

Late == {"TableStart", "Root3", "Declaration"}
Paired ==
    \A i \in At("GroupRef") :
        FollowedBy(i, "Overrides") \/ ((where = "group" \/ awaits) /\ IsLast(i))

OrderInv ==
    where # "failed" =>
        /\ phase = "pre" => \A type \in Late : At(type) = {}
        /\ where # "table" /\ ~table => At("TableStart") = {}
        /\ where \in {"table", "done"} => ~awaits
        /\ Before({"GroupRef"}, Late)
        /\ strict => Before({"Root2"}, {"TableStart"}) /\ Before({"TableStart"}, {"Declaration"})
        /\ Paired
        /\ IsFiniteSet(At("Overrides")) /\ overrides = Cardinality(At("Overrides"))

LEMMA ManifestNodes ==
    ASSUME Places
    PROVE  /\ Len(seen) \in Nat /\ NodesIn(0) \subseteq 1..Len(seen)
           /\ \A type : At(type) \subseteq NodesIn(0)
BY DEF Places, IsSeq, NodesIn, At

(* A node of a group list changes nothing in the manifest.                 *)
LEMMA GroupNodeRead ==
    ASSUME Places, NEW type, NEW s, NEW l, Sees(type, l, s), l # 0
    PROVE  /\ NodesIn(0)' = NodesIn(0)
           /\ \A t : At(t)' = At(t)
           /\ \A i \in NodesIn(0) : \A t : FollowedBy(i, t) => FollowedBy(i, t)'
           /\ \A i \in NodesIn(0) : IsLast(i) => IsLast(i)'
<1> DEFINE n == Len(seen)
<1>1. /\ n \in Nat /\ Len(seen') = n + 1 /\ seen'[n+1] = [type |-> type, list |-> l, sig |-> s]
      /\ DOMAIN seen = 1..n /\ DOMAIN seen' = 1..n+1
      /\ \A i \in 1..n : seen'[i] = seen[i]
      /\ 1..n+1 = 1..n \cup {n+1}
  BY Seen
<1>2. NodesIn(0)' = NodesIn(0) /\ n+1 \notin NodesIn(0)
  BY <1>1 DEF NodesIn
<1>3. \A t : At(t)' = At(t)
  BY <1>1, <1>2 DEF At, NodesIn
<1>4. \A i \in NodesIn(0) : \A t : FollowedBy(i, t) => FollowedBy(i, t)'
  BY <1>2, <1>3 DEF FollowedBy
<1>5. \A i \in NodesIn(0) : IsLast(i) => IsLast(i)'
  <2> SUFFICES ASSUME NEW i \in NodesIn(0), IsLast(i), NEW k \in (i+1)..n+1, k \in NodesIn(0)
               PROVE  FALSE
    BY <1>1, <1>2 DEF IsLast
  <2>1. k \in (i+1)..n
    BY <1>1, <1>2 DEF NodesIn
  <2> QED
    BY <2>1 DEF IsLast
<1> QED
  BY <1>2, <1>3, <1>4, <1>5

(* A node of the manifest is its last one.                                 *)
LEMMA ManifestNodeRead ==
    ASSUME Places, NEW type, NEW s, Sees(type, 0, s), NEW k, k = Len(seen) + 1
    PROVE  /\ NodesIn(0)' = NodesIn(0) \cup {k}
           /\ \A t : At(t)' = IF t = type THEN At(t) \cup {k} ELSE At(t)
           /\ \A i \in NodesIn(0) : \A t : FollowedBy(i, t) => FollowedBy(i, t)'
           /\ \A i \in NodesIn(0) : IsLast(i) => FollowedBy(i, type)'
           /\ IsLast(k)'
           /\ \A i \in NodesIn(0) : i \in Nat /\ i < k
           /\ k \in Nat
<1> DEFINE n == Len(seen)
<1>1. /\ n \in Nat /\ Len(seen') = n + 1 /\ seen'[n+1] = [type |-> type, list |-> 0, sig |-> s]
      /\ DOMAIN seen = 1..n /\ DOMAIN seen' = 1..n+1
      /\ \A i \in 1..n : seen'[i] = seen[i]
      /\ 1..n+1 = 1..n \cup {n+1} /\ k = n+1
  BY Seen
<1>2. NodesIn(0)' = NodesIn(0) \cup {k} /\ NodesIn(0) \subseteq 1..n
  BY <1>1 DEF NodesIn
<1>3. \A t : At(t)' = IF t = type THEN At(t) \cup {k} ELSE At(t)
  <2> TAKE t
  <2>1. At(t) = {i \in NodesIn(0) : seen[i].type = t}
        /\ At(t)' = {i \in NodesIn(0) \cup {k} : seen'[i].type = t}
    BY <1>2 DEF At
  <2>2. \A i \in NodesIn(0) : seen'[i] = seen[i]
    BY <1>1, <1>2
  <2>3. seen'[k].type = type
    BY <1>1
  <2> QED
    BY <2>1, <2>2, <2>3
<1>4. \A i \in NodesIn(0) : i \in Nat /\ i < k
  BY <1>1, <1>2
<1>5. ASSUME NEW i \in NodesIn(0), NEW t, FollowedBy(i, t) PROVE FollowedBy(i, t)'
  <2>1. PICK j \in At(t) : j > i /\ (i+1)..(j-1) \cap NodesIn(0) = {}
    BY <1>5 DEF FollowedBy
  <2>2. j \in NodesIn(0) /\ j \in 1..n /\ i \in 1..n
    BY <1>2 DEF At
  <2>3. k \notin (i+1)..(j-1)
    BY <1>1, <2>2
  <2>4. j \in At(t)' /\ (i+1)..(j-1) \cap NodesIn(0)' = {}
    BY <1>2, <1>3, <2>1, <2>3
  <2> QED
    BY <2>1, <2>4 DEF FollowedBy
<1>6. ASSUME NEW i \in NodesIn(0), IsLast(i) PROVE FollowedBy(i, type)'
  <2>1. (i+1)..n \cap NodesIn(0) = {} /\ k \in At(type)'
    BY <1>3, <1>6 DEF IsLast
  <2>2. k > i /\ (i+1)..(k-1) = (i+1)..n /\ k \notin (i+1)..n
    BY <1>1, <1>4
  <2>3. (i+1)..(k-1) \cap NodesIn(0)' = {}
    BY <1>2, <2>1, <2>2
  <2> QED
    BY <2>1, <2>2, <2>3 DEF FollowedBy
<1>7. IsLast(k)'
  BY <1>1 DEF IsLast
<1> QED
  BY <1>1, <1>2, <1>3, <1>4, <1>5, <1>6, <1>7

(* The ways a step has with the parts of a manifest.                       *)
KeepsParts == UNCHANGED <<strict, phase, awaits, table, overrides>>
StepInGroup ==
    /\ where = "group" /\ where' = "group" /\ KeepsParts
    /\ \E type, s : Sees(type, groups, s)
StepNoNode ==
    /\ UNCHANGED <<seen, strict, phase, table, overrides>>
    /\ \/ where = "group" /\ where' = "manifest" /\ awaits'
       \/ where = "manifest" /\ where' = "done" /\ ~awaits /\ ~awaits'
       \/ UNCHANGED <<where, awaits>>
StepOther ==
    /\ where \in {"manifest", "table"} /\ (where = "manifest" => ~awaits)
    /\ UNCHANGED <<strict, phase, awaits, overrides>>
    /\ \/ UNCHANGED <<where, table>>
       \/ where = "table" /\ where' = "manifest" /\ table'
    /\ \E type, s : /\ type \notin {"GroupRef", "Root2", "Overrides"} \cup Late
                    /\ Sees(type, 0, s)
StepOverrides ==
    /\ where = "manifest" /\ UNCHANGED <<where, strict, phase, table>>
    /\ Sees("Overrides", 0, NoSignature)
    /\ overrides' = overrides + 1 /\ ~awaits'
StepGroupRef ==
    /\ where = "manifest" /\ where' = "group" /\ ~awaits /\ phase = "pre" /\ KeepsParts
    /\ Sees("GroupRef", 0, NoSignature)
StepTable ==
    /\ where = "manifest" /\ where' = "table" /\ ~awaits /\ phase = "pre" /\ ~table
    /\ phase' # "pre" /\ UNCHANGED <<strict, awaits, table, overrides>>
    /\ Sees("TableStart", 0, NoSignature)
StepRoot3 ==
    /\ where = "manifest" /\ where' = "manifest" /\ ~awaits
    /\ phase' # "pre" /\ UNCHANGED <<strict, awaits, table, overrides>>
    /\ Sees("Root3", 0, NoSignature)
StepRoot2 ==
    /\ where = "manifest" /\ where' = "manifest" /\ ~awaits /\ ~(strict /\ table) /\ KeepsParts
    /\ Sees("Root2", 0, NoSignature)
StepChange ==
    /\ where = "manifest" /\ where' = "manifest" /\ ~awaits
    /\ phase' # "pre" /\ UNCHANGED <<strict, awaits, table, overrides>>
    /\ Sees("Declaration", 0, NoSignature)

LEMMA StepParts ==
    ASSUME [ContentNext]_contentVars
    PROVE  \/ where' = "failed"
           \/ StepInGroup \/ StepNoNode \/ StepOther \/ StepOverrides \/ StepGroupRef
           \/ StepTable \/ StepRoot3 \/ StepRoot2 \/ StepChange
<1> USE DEF InManifest, InGroup, InTable, See, Sees, content, ListOf, Fail, FixedKind, KeepsParts
<1>1. CASE RejectUnpaired \/ RejectGroup \/ RejectEntry
  BY <1>1 DEF RejectUnpaired, RejectGroup, RejectEntry
<1>2. CASE SkipNode
  BY <1>2 DEF SkipNode, StepOther, Late
<1>3. CASE ReadOverrides
  BY <1>3 DEF ReadOverrides, StepOverrides
<1>4. CASE ReadSignature
  BY <1>4 DEF ReadSignature, StepOther, StepInGroup, Late
<1>5. CASE ReadGroupRef
  BY <1>5 DEF ReadGroupRef, StepGroupRef
<1>6. CASE StartGroup \/ SkipInGroup
  BY <1>6 DEF StartGroup, SkipInGroup, StepInGroup
<1>7. CASE ChangeInGroup \/ EndMark
  BY <1>7 DEF ChangeInGroup, EndMark, StepInGroup
<1>8. CASE EndGroup \/ EndContent
  BY <1>8 DEF EndGroup, EndContent, StepNoNode
<1>9. CASE StartTable
  BY <1>9 DEF StartTable, StepTable
<1>10. CASE ReadEntry \/ EndTable
  BY <1>10 DEF ReadEntry, EndTable, StepOther, Late
<1>11. CASE ReadRoot3
  BY <1>11 DEF ReadRoot3, StepRoot3
<1>12. CASE ReadRoot2
  BY <1>12 DEF ReadRoot2, StepRoot2
<1>13. CASE ReadChange
  BY <1>13 DEF ReadChange, StepChange
<1>14. CASE ContentStop \/ UNCHANGED contentVars
  BY <1>14 DEF ContentStop, contentVars, StepNoNode
<1> QED
  BY <1>1, <1>2, <1>3, <1>4, <1>5, <1>6, <1>7, <1>8, <1>9, <1>10, <1>11, <1>12, <1>13, <1>14
     DEF ContentNext

LEMMA PairedAfter ==
    ASSUME Places, Paired, where # "group", NEW type, NEW s, Sees(type, 0, s),
           ~awaits \/ type = "Overrides",
           type = "GroupRef" => where' = "group"
    PROVE  Paired'
<1>1. PICK k : k = Len(seen) + 1
  OBVIOUS
<1>2. /\ \A t : At(t)' = IF t = type THEN At(t) \cup {k} ELSE At(t)
      /\ \A i \in NodesIn(0) : \A t : FollowedBy(i, t) => FollowedBy(i, t)'
      /\ \A i \in NodesIn(0) : IsLast(i) => FollowedBy(i, type)'
      /\ IsLast(k)'
  BY <1>1, ManifestNodeRead
<1> SUFFICES ASSUME NEW i, i \in At("GroupRef")'
             PROVE  FollowedBy(i, "Overrides")' \/ (where' = "group" /\ IsLast(i)')
  BY DEF Paired
<1>3. CASE i \in At("GroupRef")
  <2>1. i \in NodesIn(0)
    BY <1>3 DEF At
  <2>2. FollowedBy(i, "Overrides") \/ (type = "Overrides" /\ IsLast(i))
    BY <1>3 DEF Paired
  <2> QED
    BY <1>2, <2>1, <2>2
<1>4. CASE i \notin At("GroupRef")
  <2>1. type = "GroupRef" /\ i = k
    BY <1>2, <1>4
  <2> QED
    BY <1>2, <2>1
<1> QED
  BY <1>3, <1>4

(* A node put behind all others comes before none of them.                 *)
LEMMA BeforeAfter ==
    ASSUME Places, NEW type, NEW s, Sees(type, 0, s), NEW types, NEW later, Before(types, later),
           type \in types => \A t \in later : At(t) = {} /\ t # type
    PROVE  Before(types, later)'
<1>1. PICK k : k = Len(seen) + 1
  OBVIOUS
<1>2. /\ \A t : At(t)' = IF t = type THEN At(t) \cup {k} ELSE At(t)
      /\ \A i \in NodesIn(0) : i \in Nat /\ i < k
      /\ \A t : At(t) \subseteq NodesIn(0)
      /\ k \in Nat
  BY <1>1, ManifestNodeRead, ManifestNodes
<1> SUFFICES ASSUME NEW a \in types, NEW b \in later, NEW i, i \in At(a)', NEW j, j \in At(b)'
             PROVE  i < j
  BY DEF Before
<1>3. j \in At(b) \/ (b = type /\ j = k)
  BY <1>2
<1>4. i \in At(a) \/ (a = type /\ i = k)
  BY <1>2
<1>5. CASE a = type
  BY <1>2, <1>3, <1>4, <1>5 DEF Before
<1>6. CASE a # type
  BY <1>2, <1>3, <1>4, <1>6 DEF Before
<1> QED
  BY <1>5, <1>6

(* The overrides nodes counted and those read.                             *)
LEMMA CountedAfter ==
    ASSUME Places, NEW type, NEW s, Sees(type, 0, s),
           IsFiniteSet(At("Overrides")), overrides = Cardinality(At("Overrides")),
           overrides' = IF type = "Overrides" THEN overrides + 1 ELSE overrides
    PROVE  IsFiniteSet(At("Overrides")') /\ overrides' = Cardinality(At("Overrides")')
<1>1. PICK k : k = Len(seen) + 1
  OBVIOUS
<1>2. /\ \A t : At(t)' = IF t = type THEN At(t) \cup {k} ELSE At(t)
      /\ \A i \in NodesIn(0) : i \in Nat /\ i < k
      /\ k \in Nat
  BY <1>1, ManifestNodeRead
<1>3. At("Overrides") \subseteq NodesIn(0)
  BY ManifestNodes
<1>4. k \notin At("Overrides")
  BY <1>2, <1>3
<1> QED
  BY <1>2, <1>4, FS_AddElement

(* What every node of a manifest does to the parts, but for the types that *)
(* must stay in order.                                                     *)
LEMMA PartsAfter ==
    ASSUME Places, OrderInv, where \in {"manifest", "table"}, NEW type, NEW s, Sees(type, 0, s),
           strict' = strict,
           ~awaits \/ type = "Overrides",
           type = "GroupRef" => phase = "pre" /\ where' = "group",
           type = "Root2" /\ strict => At("TableStart") = {},
           type = "TableStart" => phase = "pre",
           overrides' = IF type = "Overrides" THEN overrides + 1 ELSE overrides
    PROVE  /\ Before({"GroupRef"}, Late)'
           /\ strict' => /\ Before({"Root2"}, {"TableStart"})'
                         /\ Before({"TableStart"}, {"Declaration"})'
           /\ Paired'
           /\ IsFiniteSet(At("Overrides")') /\ overrides' = Cardinality(At("Overrides")')
<1>1. /\ phase = "pre" => \A t \in Late : At(t) = {}
      /\ Before({"GroupRef"}, Late)
      /\ strict => Before({"Root2"}, {"TableStart"}) /\ Before({"TableStart"}, {"Declaration"})
      /\ Paired
      /\ IsFiniteSet(At("Overrides")) /\ overrides = Cardinality(At("Overrides"))
  BY DEF OrderInv
<1>2. Before({"GroupRef"}, Late)'
  <2>1. type \in {"GroupRef"} => \A t \in Late : At(t) = {} /\ t # type
    BY <1>1 DEF Late
  <2> QED
    BY <1>1, <2>1, BeforeAfter
<1>3. strict => Before({"Root2"}, {"TableStart"})'
  <2>1. type \in {"Root2"} /\ strict => \A t \in {"TableStart"} : At(t) = {} /\ t # type
    OBVIOUS
  <2> QED
    BY <1>1, <2>1, BeforeAfter
<1>4. strict => Before({"TableStart"}, {"Declaration"})'
  <2>1. type \in {"TableStart"} => \A t \in {"Declaration"} : At(t) = {} /\ t # type
    BY <1>1 DEF Late
  <2> QED
    BY <1>1, <2>1, BeforeAfter
<1>5. Paired'
  BY <1>1, PairedAfter
<1>6. IsFiniteSet(At("Overrides")') /\ overrides' = Cardinality(At("Overrides")')
  BY <1>1, CountedAfter
<1> QED
  BY <1>2, <1>3, <1>4, <1>5, <1>6

LEMMA OtherTypes ==
    ASSUME Places, NEW type, NEW s, Sees(type, 0, s), NEW t, t # type
    PROVE  At(t)' = At(t)
<1>1. PICK k : k = Len(seen) + 1
  OBVIOUS
<1> QED
  BY <1>1, ManifestNodeRead

LEMMA OrderStep == Places /\ OrderInv /\ [ContentNext]_contentVars => OrderInv'
<1> SUFFICES ASSUME Places, OrderInv, [ContentNext]_contentVars, where' # "failed" PROVE OrderInv'
  BY DEF OrderInv
<1>1. where # "failed" \/ UNCHANGED where
  BY StepParts DEF StepInGroup, StepNoNode, StepOther, StepOverrides, StepGroupRef, StepTable,
     StepRoot3, StepRoot2, StepChange
<1>2. /\ phase = "pre" => \A type \in Late : At(type) = {}
      /\ where # "table" /\ ~table => At("TableStart") = {}
      /\ where \in {"table", "done"} => ~awaits
  BY <1>1 DEF OrderInv
<1>3. CASE StepInGroup
  <2>1. PICK type, s : Sees(type, groups, s)
    BY <1>3 DEF StepInGroup
  <2>2. groups # 0
    BY <1>3 DEF StepInGroup, Places
  <2>3. /\ \A t : At(t)' = At(t)
        /\ \A i \in NodesIn(0) : \A t : FollowedBy(i, t) => FollowedBy(i, t)'
        /\ \A i \in NodesIn(0) : IsLast(i) => IsLast(i)'
        /\ At("GroupRef") \subseteq NodesIn(0)
    BY <2>1, <2>2, GroupNodeRead, ManifestNodes
  <2>4. where = "group" /\ where' = "group" /\ UNCHANGED <<strict, phase, awaits, table, overrides>>
    BY <1>3 DEF StepInGroup, KeepsParts
  <2>5. Paired'
    BY <1>1, <2>3, <2>4 DEF OrderInv, Paired
  <2>6. \A types, later : Before(types, later) => Before(types, later)'
    BY <2>3 DEF Before
  <2> QED
    BY <1>1, <2>3, <2>4, <2>5, <2>6 DEF OrderInv, Late
<1>4. CASE StepNoNode
  <2>1. UNCHANGED <<seen, strict, phase, table, overrides>>
    BY <1>4 DEF StepNoNode
  <2>2. /\ \A t : At(t)' = At(t)
        /\ \A i, t : FollowedBy(i, t)' = FollowedBy(i, t)
        /\ \A i : IsLast(i)' = IsLast(i)
        /\ \A types, later : Before(types, later)' = Before(types, later)
    BY <2>1 DEF At, NodesIn, FollowedBy, IsLast, Before
  <2>3. Paired'
    BY <1>1, <1>4, <2>2 DEF OrderInv, Paired, StepNoNode
  <2>4. /\ where' \in {"table", "done"} => ~awaits'
        /\ where' # "table" => where # "table"
    BY <1>2, <1>4 DEF StepNoNode
  <2> QED
    BY <1>1, <1>2, <2>1, <2>2, <2>3, <2>4 DEF OrderInv
<1>5. CASE StepOther
  <2>1. PICK type, s : /\ type \notin {"GroupRef", "Root2", "Overrides"} \cup Late
                       /\ Sees(type, 0, s)
    BY <1>5 DEF StepOther
  <2>2. /\ where \in {"manifest", "table"} /\ where' \in {"manifest", "table"} /\ ~awaits
        /\ UNCHANGED <<strict, phase, awaits, overrides>>
        /\ where' # "table" /\ ~table' => where # "table" /\ ~table
    BY <1>2, <1>5 DEF StepOther
  <2>3. \A t \in Late : At(t)' = At(t)
    BY <2>1, OtherTypes
  <2>4. /\ Before({"GroupRef"}, Late)' /\ Paired'
        /\ strict' => Before({"Root2"}, {"TableStart"})' /\ Before({"TableStart"}, {"Declaration"})'
        /\ IsFiniteSet(At("Overrides")') /\ overrides' = Cardinality(At("Overrides")')
    BY <2>1, <2>2, PartsAfter DEF Late
  <2> QED
    BY <1>2, <2>2, <2>3, <2>4 DEF OrderInv, Late
<1>6. CASE StepOverrides
  <2>1. Sees("Overrides", 0, NoSignature) /\ where = "manifest" /\ where' = "manifest" /\ ~awaits'
        /\ UNCHANGED <<strict, phase, table>> /\ overrides' = overrides + 1
    BY <1>6 DEF StepOverrides
  <2>2. \A t \in Late : At(t)' = At(t)
    BY <2>1, OtherTypes DEF Late
  <2>3. /\ Before({"GroupRef"}, Late)' /\ Paired'
        /\ strict' => Before({"Root2"}, {"TableStart"})' /\ Before({"TableStart"}, {"Declaration"})'
        /\ IsFiniteSet(At("Overrides")') /\ overrides' = Cardinality(At("Overrides")')
    BY <2>1, PartsAfter
  <2> QED
    BY <1>2, <2>1, <2>2, <2>3 DEF OrderInv, Late
<1>7. CASE StepGroupRef
  <2>1. Sees("GroupRef", 0, NoSignature) /\ where = "manifest" /\ where' = "group" /\ ~awaits
        /\ phase = "pre" /\ UNCHANGED <<strict, phase, table, overrides, awaits>>
    BY <1>7 DEF StepGroupRef, KeepsParts
  <2>2. \A t \in Late : At(t)' = At(t)
    BY <2>1, OtherTypes DEF Late
  <2>3. /\ Before({"GroupRef"}, Late)' /\ Paired'
        /\ strict' => Before({"Root2"}, {"TableStart"})' /\ Before({"TableStart"}, {"Declaration"})'
        /\ IsFiniteSet(At("Overrides")') /\ overrides' = Cardinality(At("Overrides")')
    BY <2>1, PartsAfter
  <2> QED
    BY <1>2, <2>1, <2>2, <2>3 DEF OrderInv, Late
<1>8. CASE StepTable
  <2>1. Sees("TableStart", 0, NoSignature) /\ where = "manifest" /\ where' = "table" /\ ~awaits
        /\ phase = "pre" /\ phase' # "pre" /\ UNCHANGED <<strict, awaits, overrides>>
    BY <1>8 DEF StepTable
  <2>2. /\ Before({"GroupRef"}, Late)' /\ Paired'
        /\ strict' => Before({"Root2"}, {"TableStart"})' /\ Before({"TableStart"}, {"Declaration"})'
        /\ IsFiniteSet(At("Overrides")') /\ overrides' = Cardinality(At("Overrides")')
    BY <2>1, PartsAfter
  <2> QED
    BY <2>1, <2>2 DEF OrderInv
<1>9. CASE StepRoot3
  <2>1. Sees("Root3", 0, NoSignature) /\ where = "manifest" /\ where' = "manifest" /\ ~awaits
        /\ phase' # "pre" /\ UNCHANGED <<strict, awaits, table, overrides>>
    BY <1>9 DEF StepRoot3
  <2>2. At("TableStart")' = At("TableStart")
    BY <2>1, OtherTypes
  <2>3. /\ Before({"GroupRef"}, Late)' /\ Paired'
        /\ strict' => Before({"Root2"}, {"TableStart"})' /\ Before({"TableStart"}, {"Declaration"})'
        /\ IsFiniteSet(At("Overrides")') /\ overrides' = Cardinality(At("Overrides")')
    BY <2>1, PartsAfter
  <2> QED
    BY <1>2, <2>1, <2>2, <2>3 DEF OrderInv
<1>10. CASE StepRoot2
  <2>1. Sees("Root2", 0, NoSignature) /\ where = "manifest" /\ where' = "manifest" /\ ~awaits
        /\ ~(strict /\ table) /\ UNCHANGED <<strict, phase, awaits, table, overrides>>
    BY <1>10 DEF StepRoot2, KeepsParts
  <2>2. \A t \in Late : At(t)' = At(t)
    BY <2>1, OtherTypes DEF Late
  <2>3. /\ Before({"GroupRef"}, Late)' /\ Paired'
        /\ strict' => Before({"Root2"}, {"TableStart"})' /\ Before({"TableStart"}, {"Declaration"})'
        /\ IsFiniteSet(At("Overrides")') /\ overrides' = Cardinality(At("Overrides")')
    BY <1>2, <2>1, PartsAfter
  <2> QED
    BY <1>2, <2>1, <2>2, <2>3 DEF OrderInv, Late
<1>11. CASE StepChange
  <2>1. Sees("Declaration", 0, NoSignature) /\ where = "manifest" /\ where' = "manifest" /\ ~awaits
        /\ phase' # "pre" /\ UNCHANGED <<strict, awaits, table, overrides>>
    BY <1>11 DEF StepChange
  <2>2. At("TableStart")' = At("TableStart")
    BY <2>1, OtherTypes
  <2>3. /\ Before({"GroupRef"}, Late)' /\ Paired'
        /\ strict' => Before({"Root2"}, {"TableStart"})' /\ Before({"TableStart"}, {"Declaration"})'
        /\ IsFiniteSet(At("Overrides")') /\ overrides' = Cardinality(At("Overrides")')
    BY <2>1, PartsAfter
  <2> QED
    BY <1>2, <2>1, <2>2, <2>3 DEF OrderInv
<1> QED
  BY <1>3, <1>4, <1>5, <1>6, <1>7, <1>8, <1>9, <1>10, <1>11, StepParts

(* The parts of every manifest that is accepted are in order, and each of  *)
(* its groups is followed by its overrides.                                *)
THEOREM PartsInOrder == ContentSpec => []ContentInOrder
<1>1. ContentInit => OrderInv
  <2> SUFFICES ASSUME ContentInit PROVE OrderInv
    OBVIOUS
  <2>1. seen = <<>> /\ where = "manifest" /\ awaits = FALSE /\ overrides = 0
    BY DEF ContentInit
  <2>2. \A t : At(t) = {}
    BY <2>1 DEF At, NodesIn
  <2>3. IsFiniteSet({}) /\ Cardinality({}) = 0
    BY FS_EmptySet
  <2> QED
    BY <2>1, <2>2, <2>3 DEF OrderInv, Before, Paired
<1>2. OrderInv => ContentInOrder
  BY DEF OrderInv, ContentInOrder, Paired, Late
<1> QED
  BY <1>1, <1>2, PlacesAtStart, PlacesStep, OrderStep, PTL DEF ContentSpec

-----------------------------------------------------------------------------
(* FileNodeList: while a list is read, the nodes returned and what remains *)
(* of the limit are the committed count.                                   *)


Steps == OpenFragment \/ ScanNode \/ ReadTerminator \/ StopScan

Accepts == StopAtLimit \/ FollowNext \/ StopAtEnd

Fails == RejectLongChain \/ RejectLoop \/ RejectChunk \/ RejectNode
           \/ RejectFragment \/ RejectNext

LEMMA NextCases ==
    ASSUME [ChainNext]_chainVars
    PROVE  Steps \/ Fails \/ (pc = "close" /\ Accepts) \/ UNCHANGED chainVars
BY DEF ChainNext, Steps, Fails, Accepts, StopAtLimit, FollowNext, StopAtEnd, Stopped

(* Every failure leaves all but pc and failure as they are.                *)
LEMMA FailEffect ==
    ASSUME Fails
    PROVE  /\ pc \in {"open", "scan", "close"} /\ pc' = "failed"
           /\ failure' \in {"loop", "long", "chunk", "node", "fragment", "next"}
           /\ failure' = "node" => pc = "scan" /\ Room
           /\ UNCHANGED <<committed, current, visited, header, count, terminator,
                          list_id, remaining, fragments, returned>>
<1> USE DEF Raise, chain, fragment
<1>1. CASE RejectLongChain  BY <1>1 DEF RejectLongChain
<1>2. CASE RejectLoop       BY <1>2 DEF RejectLoop
<1>3. CASE RejectChunk      BY <1>3 DEF RejectChunk
<1>4. CASE RejectNode       BY <1>4 DEF RejectNode
<1>5. CASE RejectFragment   BY <1>5 DEF RejectFragment
<1>6. CASE RejectNext       BY <1>6 DEF RejectNext
<1> QED BY <1>1, <1>2, <1>3, <1>4, <1>5, <1>6 DEF Fails

(* While nothing is accepted yet there is no list, no limit and no node.   *)
ListTypeOK ==
    /\ list_id = NoList <=> fragments = <<>>
    /\ list_id = NoList => remaining = 0 /\ returned = <<>>
    /\ pc \in {"scan", "close"} => Len(fragments) < MaxFragments

(* Until the limit is reached, what is left of it is what was not read.    *)
Accounting ==
    /\ pc \in {"scan", "close"} /\ remaining > 0 => count <= remaining
    /\ Limited =>
         \/ remaining > 0 /\ Len(returned) + remaining = committed[list_id]
         \/ /\ remaining = 0 /\ pc = "done"
            /\ Len(returned) > committed[list_id] => Len(fragments) = 1
    /\ (list_id # NoList /\ ~Limited) => remaining = 0
    /\ failure # "none" => pc = "failed"
    /\ (failure = "node" /\ remaining > 0) => count < remaining

LInv == TypeOK /\ ListTypeOK /\ Accounting

LEMMA LInvInit == ChainInit => LInv
<1> SUFFICES ASSUME ChainInit PROVE LInv
    OBVIOUS
<1>1. TypeOK
    <2>1. 0 \in 0..MaxSlots /\ 0 \in 0..MaxCommitted /\ 0 <= MaxFragments
        BY ChainBounds
    <2>2. fragments \in Seq(FragmentInfo) /\ returned \in Seq(Node) /\ Len(fragments) = 0
        BY DEF ChainInit
    <2>3. failure \in {"none", "loop", "long", "chunk", "node", "fragment", "next"}
        BY DEF ChainInit
    <2> QED BY <2>1, <2>2, <2>3 DEF ChainInit, TypeOK
<1>2. ListTypeOK /\ Accounting
    BY NoListIsNoId DEF ChainInit, ListTypeOK, Accounting, Limited
<1> QED BY <1>1, <1>2 DEF LInv

(* What accepting a fragment does to the list.                             *)
LEMMA AcceptEffect ==
    ASSUME LInv, Accepted, AcceptFragment, pc = "close", current' \in FragmentPlaces,
           ~LimitReached \/ pc' = "done"
    PROVE  /\ fragments' \in Seq(FragmentInfo)
           /\ Len(fragments') = Len(fragments) + 1
           /\ returned' \in Seq(Node)
           /\ Len(returned') = Len(returned) + count
           /\ remaining' \in 0..MaxCommitted
           /\ list_id' \in ListIds /\ list_id' = header.id
<1> USE ChainBounds DEF LInv, TypeOK
<1>1. Limit \in 0..MaxCommitted
    BY DEF Limit, Header
<1>2. remaining' \in 0..MaxCommitted
    BY <1>1 DEF AcceptFragment, LimitReached
<1>3. [place |-> current, id |-> header.id, seq |-> header.seq]
        \in FragmentInfo
    BY DEF Header, FragmentInfo
<1>4. [i \in 1..count |-> <<current, i>>] \in Seq(Node)
      /\ Len([i \in 1..count |-> <<current, i>>]) = count
    <2>1. \A i \in 1..count : <<current, i>> \in Node
        BY DEF Node
    <2>2. count \in Nat
        OBVIOUS
    <2> QED BY <2>1, <2>2
<1> QED BY <1>2, <1>3, <1>4 DEF AcceptFragment, Header

LEMMA LInvNext == LInv /\ [ChainNext]_chainVars => LInv'
<1> SUFFICES ASSUME LInv, [ChainNext]_chainVars PROVE LInv'
    OBVIOUS
<1> USE DEF LInv
<1>1. CASE Steps
    <2>1. UNCHANGED <<committed, list_id, remaining, fragments, returned, failure>>
        BY <1>1 DEF Steps, OpenFragment, ScanNode, ReadTerminator, StopScan,
                    chain, fragment
    <2>2. TypeOK'
        <3>1. /\ pc' \in {"scan", "close"} /\ current' = current
              /\ header' \in Header /\ count' \in 0..MaxSlots
            BY <1>1, ChainBounds DEF TypeOK, Steps, OpenFragment, ScanNode,
                                ReadTerminator, StopScan, fragment
        <3>2. visited' \subseteq FragmentPlaces
            BY <1>1 DEF TypeOK, Steps, OpenFragment, ScanNode,
                        ReadTerminator, StopScan, fragment
        <3>3. terminator' \in BOOLEAN
            BY <1>1 DEF TypeOK, Steps, OpenFragment, ScanNode,
                        ReadTerminator, StopScan, fragment
        <3> QED BY <2>1, <3>1, <3>2, <3>3 DEF TypeOK
    <2>3. ListTypeOK'
        BY <1>1, <2>1 DEF ListTypeOK, Steps, OpenFragment, ScanNode,
                          ReadTerminator, StopScan
    <2>4. pc \in {"open", "scan"} /\ pc' \in {"scan", "close"}
        BY <1>1 DEF Steps, OpenFragment, ScanNode, ReadTerminator, StopScan
    <2>5. remaining > 0 => count' <= remaining
        BY <1>1, ChainBounds DEF Accounting, TypeOK, Steps, OpenFragment, ScanNode,
                    ReadTerminator, StopScan, fragment, Room
    <2> QED BY <2>1, <2>2, <2>3, <2>4, <2>5 DEF Accounting, Limited
<1>2. CASE Fails
    <2>1. TypeOK'
        BY <1>2, FailEffect DEF TypeOK
    <2>2. ListTypeOK'
        BY <1>2, FailEffect DEF ListTypeOK
    <2>3. Accounting'
        <3>1. Limited' <=> Limited
            BY <1>2, FailEffect DEF Limited
        <3>2. pc # "done" /\ pc' = "failed" /\ (failure' = "node" => pc = "scan" /\ Room)
            BY <1>2, FailEffect
        <3>3. UNCHANGED <<committed, count, list_id, remaining, fragments, returned>>
            BY <1>2, FailEffect
        <3> QED BY <3>1, <3>2, <3>3 DEF Accounting, Room, TypeOK
    <2> QED BY <2>1, <2>2, <2>3
<1>3. CASE pc = "close" /\ Accepts
    <2>1. Accepted /\ AcceptFragment /\ current' \in FragmentPlaces
          /\ (~LimitReached \/ pc' = "done")
        BY <1>3 DEF Accepts, StopAtLimit, FollowNext, StopAtEnd, TypeOK
    <2>2. /\ fragments' \in Seq(FragmentInfo)
          /\ Len(fragments') = Len(fragments) + 1
          /\ returned' \in Seq(Node)
          /\ Len(returned') = Len(returned) + count
          /\ remaining' \in 0..MaxCommitted
          /\ list_id' \in ListIds /\ list_id' = header.id
        BY <1>3, <2>1, AcceptEffect
    <2>3. UNCHANGED <<committed, visited, header, count, terminator, failure>>
        BY <2>1 DEF AcceptFragment
    <2>4. pc' \in {"open", "done"}
        BY <1>3 DEF Accepts, StopAtLimit, FollowNext, StopAtEnd
    <2>5. Len(fragments') <= MaxFragments
        BY <1>3, <2>2, ChainBounds DEF ListTypeOK, TypeOK
    <2>6. TypeOK'
        BY <2>1, <2>2, <2>3, <2>4, <2>5 DEF TypeOK
    <2>7. ListTypeOK'
        BY <2>2, <2>4, NoListIsNoId DEF ListTypeOK, TypeOK
    <2>8. Accounting'
        <3>1. list_id' # NoList /\ failure' = "none" /\ pc' \notin {"scan", "close"}
            BY <1>3, <2>2, <2>3, <2>4, NoListIsNoId DEF Accounting
        <3>2. Limited' <=> committed[header.id] > 0
            BY <2>2, <2>3, <3>1 DEF Limited
        <3>3. committed[header.id] \in 0..MaxCommitted
            BY DEF TypeOK, Header
        <3>4. remaining' = IF LimitReached \/ Limit = 0 THEN 0 ELSE Limit - count
            BY <2>1 DEF AcceptFragment
        <3>5. CASE list_id = NoList
            <4>1. Limit = committed[header.id] /\ Len(returned) = 0 /\ Len(fragments) = 0
                BY <3>5 DEF Limit, ListTypeOK
            <4> QED BY <2>1, <2>2, <2>3, <3>1, <3>2, <3>3, <3>4, <4>1, ChainBounds
                    DEF Accounting, LimitReached, TypeOK
        <3>6. CASE list_id # NoList
            <4>1. Limit = remaining /\ list_id = header.id
                BY <2>1, <3>6 DEF Limit, Accepted
            <4>2. Limited <=> committed[header.id] > 0
                BY <3>6, <4>1 DEF Limited
            <4>3. Len(returned) \in Nat
                BY DEF TypeOK
            <4> QED BY <1>3, <2>1, <2>2, <2>3, <3>1, <3>2, <3>3, <3>4, <3>6, <4>1,
                       <4>2, <4>3, ChainBounds
                    DEF Accounting, LimitReached, TypeOK
        <3> QED BY <3>5, <3>6
    <2> QED BY <2>6, <2>7, <2>8
<1>4. CASE UNCHANGED chainVars
    BY <1>4 DEF chainVars, fragment, chain, TypeOK, ListTypeOK, Accounting, Limited
<1> QED BY <1>1, <1>2, <1>3, <1>4, NextCases

LEMMA LInvAlways == ChainSpec => []LInv
BY LInvInit, LInvNext, PTL DEF ChainSpec

(* The type invariant holds in every reachable state.                      *)
THEOREM TypeCorrect == ChainSpec => []TypeOK
BY LInvAlways, PTL DEF LInv

(* As long as there is one fragment, all nodes returned are its nodes.     *)
FirstNodes ==
    Len(fragments) = 1 => \A k \in 1..Len(returned) : returned[k][1] = fragments[1].place

LEMMA FirstNodesKeep ==
    ASSUME LInv, FirstNodes, [ChainNext]_chainVars
    PROVE  FirstNodes'
<1>1. CASE UNCHANGED <<fragments, returned>>
    BY <1>1 DEF FirstNodes
<1>2. CASE pc = "close" /\ Accepts
    <2>1. AcceptFragment
        BY <1>2 DEF Accepts, StopAtLimit, FollowNext, StopAtEnd
    <2> DEFINE f == [place |-> current, id |-> header.id, seq |-> header.seq]
               new == [i \in 1..count |-> <<current, i>>]
    <2>2. fragments \in Seq(FragmentInfo) /\ returned \in Seq(Node) /\ count \in Nat
        BY ChainBounds DEF LInv, TypeOK
    <2>3. f \in FragmentInfo
        BY DEF LInv, TypeOK, FragmentInfo, Header
    <2>4. fragments' = Append(fragments, f) /\ returned' = returned \o new
        BY <2>1 DEF AcceptFragment
    <2> HIDE DEF f
    <2>5. SUFFICES ASSUME Len(fragments') = 1, NEW k \in 1..Len(returned')
                   PROVE  returned'[k][1] = fragments'[1].place
        BY DEF FirstNodes
    <2>6. Len(fragments) = 0 /\ fragments'[1] = f
        BY <2>2, <2>3, <2>4, <2>5
    <2>7. returned = <<>>
        BY <2>2, <2>6 DEF LInv, ListTypeOK
    <2>8. returned' = new
        <3>1. new \in Seq({new[i] : i \in 1..count})
            BY <2>2
        <3> HIDE DEF new
        <3> QED BY <2>4, <2>7, <3>1
    <2>9. k \in 1..count
        BY <2>2, <2>5, <2>8
    <2> QED BY <2>6, <2>8, <2>9 DEF f
<1>3. CASE Steps
    BY <1>1, <1>3 DEF Steps, OpenFragment, ScanNode, ReadTerminator, StopScan, chain, fragment
<1>4. CASE Fails
    BY <1>1, <1>4, FailEffect
<1>5. CASE UNCHANGED chainVars
    BY <1>1, <1>5 DEF chainVars, chain
<1> QED BY <1>2, <1>3, <1>4, <1>5, NextCases

(* What a fragment behind the first one gives is committed: when more      *)
(* nodes than that are returned, all of them are nodes of the first.       *)
THEOREM LaterNodesKept == ChainSpec => []LaterNodesCommitted
<1>1. ChainInit => LInv /\ FirstNodes
    <2>1. ChainInit => FirstNodes
        BY DEF ChainInit, FirstNodes
    <2> QED BY <2>1, LInvInit
<1>2. (LInv /\ FirstNodes) /\ [ChainNext]_chainVars => (LInv /\ FirstNodes)'
    BY LInvNext, FirstNodesKeep
<1>3. LInv /\ FirstNodes => LaterNodesCommitted
    <2> SUFFICES ASSUME LInv, FirstNodes, Limited, NEW k \in DOMAIN returned,
                        returned[k][1] # fragments[1].place
                 PROVE  k <= committed[list_id]
        BY DEF LaterNodesCommitted
    <2>1. /\ k \in 1..Len(returned) /\ Len(returned) \in Nat
          /\ remaining \in Nat /\ committed[list_id] \in Nat
        BY ChainBounds DEF LInv, TypeOK, Limited
    <2>2. Len(fragments) # 1
        BY <2>1 DEF FirstNodes
    <2>3. Len(returned) <= committed[list_id]
        BY <2>1, <2>2 DEF LInv, Accounting
    <2> QED BY <2>1, <2>3
<1> QED BY <1>1, <1>2, <1>3, PTL DEF ChainSpec

(* A torn tail behind the committed count of a later fragment is not read. *)
THEOREM TornTailSafe == ChainSpec => []TornTailIgnoredLater
<1>1. LInv => TornTailIgnoredLater
    BY DEF LInv, Accounting, TypeOK, TornTailIgnoredLater, Limited
<1> QED BY <1>1, LInvAlways, PTL

-----------------------------------------------------------------------------
(* OneChain needs to know that the fragment being parsed is a new one.     *)
CInv ==
    /\ LInv
    /\ OneChain
    /\ \A k \in 1..Len(fragments) : fragments[k].place \in visited
    /\ pc \in {"scan", "close"} =>
         \A k \in 1..Len(fragments) : fragments[k].place # current
    /\ pc \in {"scan", "close"} => current \in visited

(* parse_file_node_list follows one list, in order, each fragment once.    *)
THEOREM ChainIsOne == ChainSpec => []OneChain
<1>1. ChainInit => CInv
    BY LInvInit DEF ChainInit, CInv, OneChain
<1>2. CInv /\ [ChainNext]_chainVars => CInv'
    <2> SUFFICES ASSUME CInv, [ChainNext]_chainVars PROVE CInv'
        OBVIOUS
    <2>1. LInv'
        BY LInvNext DEF CInv
    <2>2. CASE Steps
        BY <2>1, <2>2 DEF CInv, OneChain, Steps, OpenFragment, ScanNode,
                          ReadTerminator, StopScan, chain, fragment
    <2>3. CASE Fails
        BY <2>1, <2>3, FailEffect DEF CInv, OneChain
    <2>4. CASE pc = "close" /\ Accepts
        <3> DEFINE n == Len(fragments)
                   f == [place |-> current, id |-> header.id, seq |-> header.seq]
        <3>1. Accepted /\ AcceptFragment /\ pc' \in {"open", "done"}
            BY <2>4 DEF Accepts, StopAtLimit, FollowNext, StopAtEnd
        <3>2. fragments \in Seq(FragmentInfo) /\ fragments' = Append(fragments, f)
              /\ f \in FragmentInfo
            BY <3>1 DEF AcceptFragment, CInv, LInv, TypeOK, FragmentInfo, Header
        <3>3. /\ Len(fragments') = n + 1 /\ fragments'[n + 1] = f
              /\ \A k \in 1..n : fragments'[k] = fragments[k]
            BY <3>2
        <3>4. n \in Nat
            BY <3>2
        <3>5. f.place = current /\ f.id = list_id' /\ f.seq = n
            BY <3>1 DEF AcceptFragment, Accepted
        <3>6. \A k \in 1..n : /\ fragments[k].id = list_id'
                              /\ fragments[k].seq = k - 1
                              /\ fragments[k].place # current
                              /\ fragments[k].place \in visited
            BY <2>4, <3>1, <3>5 DEF CInv, LInv, ListTypeOK, OneChain, Accepted,
                                    AcceptFragment
        <3>7. OneChain'
            <4>1. \A k \in 1..n+1 : /\ fragments'[k].id = list_id'
                                    /\ fragments'[k].seq = k - 1
                BY <3>3, <3>4, <3>5, <3>6
            <4>2. ASSUME NEW j \in 1..n+1, NEW k \in 1..n+1,
                         fragments'[j].place = fragments'[k].place
                  PROVE  j = k
                <5>1. CASE j \in 1..n /\ k \in 1..n
                    BY <3>3, <4>2, <5>1 DEF CInv, OneChain
                <5>2. CASE j = n + 1 \/ k = n + 1
                    BY <3>3, <3>4, <3>5, <3>6, <4>2, <5>2
                <5> QED BY <3>4, <5>1, <5>2
            <4> QED BY <3>3, <4>1, <4>2 DEF OneChain
        <3>8. visited' = visited /\ current \in visited
            BY <2>4, <3>1 DEF AcceptFragment, CInv
        <3>9. \A k \in 1..n+1 : fragments'[k].place \in visited'
            BY <3>3, <3>4, <3>5, <3>6, <3>8
        <3> QED BY <2>1, <3>1, <3>3, <3>7, <3>9 DEF CInv
    <2>5. CASE UNCHANGED chainVars
        BY <2>1, <2>5 DEF CInv, OneChain, chainVars, chain, fragment
    <2> QED BY <2>2, <2>3, <2>4, <2>5, NextCases
<1> QED BY <1>1, <1>2, PTL DEF ChainSpec, CInv
=============================================================================
