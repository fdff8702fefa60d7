--------------------------- MODULE ObjectIndexProofs ---------------------------
(***************************************************************************)
(* Proofs about ObjectIndex for scripts of any length and any ids.         *)
(*                                                                         *)
(* Both walks are compared with the tables the script itself says are in   *)
(* scope, RevisionIn and ScopeIn: Walk1 and Walk2 say that each walk has   *)
(* those tables in its variables, and First and Second that it resolved    *)
(* every id with them.  A tolerant first walk lets one thing pass that the *)
(* second one rejects, a copy out of a revision that has no table, so what *)
(* it says holds as long as no such copy was met (CopiesOk); the second    *)
(* walk never gets past one.                                               *)
(***************************************************************************)
EXTENDS ObjectIndex, FiniteSetTheorems, WellFoundedInduction, TLAPS

ScriptNode == [kind : {"revision"}, table : Table] \cup [kind : {"group"}]
              \cup TableNode \cup Change
ObjectRecord == [jcid : {None, "set", "blob"}, properties : {None} \cup Properties]

TypeOK ==
    /\ strict \in BOOLEAN
    /\ pc \in {"resolving", "indexing", "done", "failed"}
    /\ script \in Seq(ScriptNode)
    /\ base \in Table \cup {None}
    /\ current \in Table \cup {None}
    /\ oids \in Seq(Oid \cup {None})
    /\ Len(oids) = Len(script)
    /\ pos \in 1..Len(script)+1
    /\ base2 \in Table
    /\ current2 \in Table
    /\ oids2 \in Seq(Oid \cup {None})
    /\ Len(oids2) = pos - 1
    /\ DOMAIN objects \subseteq Oid
    /\ objects \in [DOMAIN objects -> ObjectRecord]

(* LatestOf, the revision's table and ScopeAt, of any sequence of nodes.   *)
LatestIn(s, k, kinds) == Max({0} \cup {j \in 1..k-1 : s[j].kind \in kinds})
RevisionIn(s, k) == s[LatestIn(s, k, {"revision"})].table
ScopeIn(s, k) ==
    LET t == LatestIn(s, k, {"table", "copy"})
    IN  IF t > LatestIn(s, k, {"group"}) THEN TableOf(RevisionIn(s, k), s[t])
        ELSE RevisionIn(s, k)

IsChange(node) == node.kind \in {"declare", "revise"}

(* Every copy before node k is out of an entry that its revision has.      *)
CopyOk(s, k) == s[k].kind = "copy" => s[k].from \in DOMAIN RevisionIn(s, k)
CopiesOk(s, k) == \A j \in 1..k-1 : CopyOk(s, j)

(* A script starts with a revision; tables and changes are in a group.     *)
Shape ==
    /\ script # <<>> => script[1].kind = "revision"
    /\ \A k \in 1..Len(script) : script[k].kind \notin {"revision", "group"} =>
         k > 1 /\ script[k-1].kind # "revision"

Walk1 ==
    LET k == Len(script) + 1
    IN  /\ script # <<>> => Effective(base) = RevisionIn(script, k)
        /\ InGroup /\ CopiesOk(script, k) => Effective(current) = ScopeIn(script, k)
        /\ strict => CopiesOk(script, k)

First ==
    \A k \in 1..Len(script) :
        IF ~IsChange(script[k]) THEN oids[k] = None
        ELSE CopiesOk(script, k) =>
               /\ oids[k] = Resolved(ScopeIn(script, k), script[k].id)
               /\ strict => script[k].id \in DOMAIN ScopeIn(script, k)

Walk2 ==
    /\ pc = "resolving" => pos = 1
    /\ pos > 1 =>
         /\ base2 = RevisionIn(script, pos)
         /\ script[pos-1].kind # "revision" => current2 = ScopeIn(script, pos)
         /\ CopiesOk(script, pos)

Second ==
    \A k \in 1..pos-1 :
        oids2[k] = IF IsChange(script[k]) THEN Resolved(ScopeIn(script, k), script[k].id)
                   ELSE None

Walk1Inv == Shape /\ Walk1 /\ First
Walk2Inv == Walk2 /\ Second
IInv == TypeOK /\ Walk1Inv /\ Walk2Inv

-----------------------------------------------------------------------------
(* Least and greatest elements of sets of numbers.                         *)

(* A set of numbers that is not empty has a least element: the intervals   *)
(* up to its elements are finite sets, and inclusion of those is           *)
(* well-founded.                                                           *)
LEMMA LeastNatural ==
    ASSUME NEW T, T \subseteq Nat, T # {}
    PROVE  \E x \in T : \A y \in T : x <= y
<1> DEFINE F == {0..n : n \in T}
<1>1. \A n \in Nat : 0..n \in FiniteSubsetsOf(Nat)
  <2> TAKE n \in Nat
  <2>1. IsFiniteSet(0..n)
    BY FS_Interval
  <2> QED
    BY <2>1 DEF FiniteSubsetsOf
<1>2. F \subseteq FiniteSubsetsOf(Nat) /\ F # {}
  BY <1>1
<1>3. \E x \in F : \A y \in F : ~ (<<y, x>> \in StrictSubsetOrdering(Nat))
  <2> HIDE DEF F
  <2> QED
    BY <1>2, FS_StrictSubsetOrderingWellFounded, WFMin
<1>4. PICK n \in T : \A m \in T : ~ (<<0..m, 0..n>> \in StrictSubsetOrdering(Nat))
  BY <1>3
<1>5. \A m \in T : n <= m
  <2> SUFFICES ASSUME NEW m \in T, m < n PROVE FALSE
    OBVIOUS
  <2>1. n \in 0..n /\ n \notin 0..m
    OBVIOUS
  <2>2. 0..m \subseteq 0..n /\ 0..m # 0..n /\ 0..m \subseteq Nat /\ 0..n \subseteq Nat
    BY <2>1
  <2> QED
    BY <1>4, <2>2 DEF StrictSubsetOrdering
<1> QED
  BY <1>5

LEMMA MaxOf ==
    ASSUME NEW S, S \subseteq Nat, S # {}, NEW b \in Nat, \A x \in S : x <= b
    PROVE  Max(S) \in S /\ \A x \in S : x <= Max(S)
<1> DEFINE U == {n \in Nat : \A x \in S : x <= n}
<1>1. PICK u \in U : \A n \in U : u <= n
  BY LeastNatural
<1>2. u \in S
  <2> SUFFICES ASSUME u \notin S PROVE FALSE
    OBVIOUS
  <2>1. \A x \in S : x <= u - 1
    OBVIOUS
  <2>2. u - 1 \in Nat
    <3>1. PICK x \in S : TRUE
      OBVIOUS
    <3>2. x \in Nat /\ x <= u - 1 /\ u \in Nat
      BY <2>1
    <3> QED
      BY <3>2
  <2>3. u - 1 \in U
    BY <2>1, <2>2
  <2> QED
    BY <1>1, <2>3
<1>3. \E x \in S : \A y \in S : x >= y
  BY <1>2
<1>4. Max(S) \in S /\ \A y \in S : Max(S) >= y
  BY <1>3 DEF Max
<1> QED
  BY <1>4

LEMMA MaxIs ==
    ASSUME NEW S, S \subseteq Nat, NEW m \in S, \A x \in S : x <= m
    PROVE  Max(S) = m
<1>1. Max(S) \in S /\ \A x \in S : x <= Max(S)
  BY MaxOf
<1>2. Max(S) <= m /\ m <= Max(S) /\ m \in Nat /\ Max(S) \in Nat
  BY <1>1
<1> QED
  BY <1>2

-----------------------------------------------------------------------------
(* The tables in scope of a node.                                          *)

LEMMA LatestRange ==
    ASSUME NEW s, NEW k \in Nat \ {0}, NEW kinds
    PROVE  /\ LatestIn(s, k, kinds) \in 0..k-1
           /\ LatestIn(s, k, kinds) # 0 => s[LatestIn(s, k, kinds)].kind \in kinds
           /\ \A j \in 1..k-1 : s[j].kind \in kinds => j <= LatestIn(s, k, kinds)
<1> DEFINE S == {0} \cup {j \in 1..k-1 : s[j].kind \in kinds}
<1>1. S \subseteq Nat /\ S # {} /\ \A x \in S : x <= k
  OBVIOUS
<1>2. Max(S) \in S /\ \A x \in S : x <= Max(S)
  BY <1>1, MaxOf
<1>3. LatestIn(s, k, kinds) = Max(S)
  BY DEF LatestIn
<1> HIDE DEF S
<1>4. \A j \in 1..k-1 : s[j].kind \in kinds => j \in S
  BY DEF S
<1>5. \A x \in S : x \in 0..k-1 /\ (x # 0 => s[x].kind \in kinds)
  BY DEF S
<1> QED
  BY <1>2, <1>3, <1>4, <1>5

LEMMA LatestIs ==
    ASSUME NEW s, NEW k \in Nat \ {0}, NEW kinds, NEW m \in 0..k-1,
           m # 0 => s[m].kind \in kinds,
           \A j \in m+1..k-1 : s[j].kind \notin kinds
    PROVE  LatestIn(s, k, kinds) = m
<1> DEFINE S == {0} \cup {j \in 1..k-1 : s[j].kind \in kinds}
<1>1. S \subseteq Nat /\ m \in S /\ \A x \in S : x <= m
  OBVIOUS
<1>2. Max(S) = m
  BY <1>1, MaxIs
<1> QED
  BY <1>2 DEF LatestIn

LEMMA LatestAfter ==
    ASSUME NEW s, NEW k \in Nat \ {0}, NEW kinds
    PROVE  LatestIn(s, k+1, kinds) =
             IF s[k].kind \in kinds THEN k ELSE LatestIn(s, k, kinds)
<1>1. CASE s[k].kind \in kinds
  <2>1. k + 1 \in Nat \ {0} /\ k \in 0..(k+1)-1 /\ k+1..(k+1)-1 = {}
    OBVIOUS
  <2> QED
    BY <1>1, <2>1, LatestIs
<1>2. CASE s[k].kind \notin kinds
  <2> DEFINE m == LatestIn(s, k, kinds)
  <2>1. /\ m \in 0..k-1 /\ (m # 0 => s[m].kind \in kinds)
        /\ \A j \in 1..k-1 : s[j].kind \in kinds => j <= m
    BY LatestRange
  <2>2. k + 1 \in Nat \ {0} /\ m \in 0..(k+1)-1 /\ \A j \in m+1..(k+1)-1 : s[j].kind \notin kinds
    BY <1>2, <2>1
  <2> HIDE DEF m
  <2>3. LatestIn(s, k+1, kinds) = m
    BY <2>1, <2>2, LatestIs
  <2> QED
    BY <1>2, <2>3 DEF m
<1> QED
  BY <1>1, <1>2

LEMMA LatestSame ==
    ASSUME NEW s, NEW t, NEW k \in Nat, \A j \in 1..k-1 : s[j] = t[j], NEW kinds
    PROVE  LatestIn(s, k, kinds) = LatestIn(t, k, kinds)
<1>1. {j \in 1..k-1 : s[j].kind \in kinds} = {j \in 1..k-1 : t[j].kind \in kinds}
  OBVIOUS
<1> QED
  BY <1>1 DEF LatestIn

LEMMA RevisionAfter ==
    ASSUME NEW s, NEW k \in Nat \ {0}
    PROVE  RevisionIn(s, k+1) = IF s[k].kind = "revision" THEN s[k].table ELSE RevisionIn(s, k)
BY LatestAfter DEF RevisionIn

LEMMA ScopeAfter ==
    ASSUME NEW s, NEW k \in Nat \ {0}, s[k].kind # "revision"
    PROVE  ScopeIn(s, k+1) =
             IF s[k].kind = "group" THEN RevisionIn(s, k)
             ELSE IF s[k].kind \in {"table", "copy"} THEN TableOf(RevisionIn(s, k), s[k])
             ELSE ScopeIn(s, k)
<1> DEFINE T(j) == LatestIn(s, j, {"table", "copy"})
           G(j) == LatestIn(s, j, {"group"})
<1>1. RevisionIn(s, k+1) = RevisionIn(s, k)
  BY RevisionAfter
<1>2. /\ T(k+1) = IF s[k].kind \in {"table", "copy"} THEN k ELSE T(k)
      /\ G(k+1) = IF s[k].kind \in {"group"} THEN k ELSE G(k)
  BY LatestAfter
<1>3. T(k) \in 0..k-1 /\ G(k) \in 0..k-1
  BY LatestRange
<1>4. /\ ScopeIn(s, k+1) = IF T(k+1) > G(k+1) THEN TableOf(RevisionIn(s, k+1), s[T(k+1)])
                           ELSE RevisionIn(s, k+1)
      /\ ScopeIn(s, k) = IF T(k) > G(k) THEN TableOf(RevisionIn(s, k), s[T(k)])
                         ELSE RevisionIn(s, k)
  BY DEF ScopeIn
<1> HIDE DEF T, G
<1>5. CASE s[k].kind = "group"
  <2>1. T(k+1) = T(k) /\ G(k+1) = k /\ ~(T(k+1) > G(k+1))
    BY <1>2, <1>3, <1>5
  <2> QED
    BY <1>1, <1>4, <1>5, <2>1
<1>6. CASE s[k].kind \in {"table", "copy"}
  <2>1. T(k+1) = k /\ G(k+1) = G(k) /\ T(k+1) > G(k+1)
    BY <1>2, <1>3, <1>6
  <2> QED
    BY <1>1, <1>4, <1>6, <2>1
<1>7. CASE s[k].kind \notin {"group", "table", "copy"}
  <2>1. T(k+1) = T(k) /\ G(k+1) = G(k)
    BY <1>2, <1>7
  <2> QED
    BY <1>1, <1>4, <1>7, <2>1
<1> QED
  BY <1>5, <1>6, <1>7

LEMMA CopiesAfter ==
    ASSUME NEW s, NEW k \in Nat \ {0}
    PROVE  CopiesOk(s, k+1) <=> CopiesOk(s, k) /\ CopyOk(s, k)
<1>1. 1..(k+1)-1 = (1..k-1) \cup {k}
  OBVIOUS
<1> QED
  BY <1>1 DEF CopiesOk

(* What two scripts that agree before node k say of its scope.             *)
LEMMA SameScope ==
    ASSUME NEW s, NEW t, NEW k \in Nat, k > 1, s[1].kind = "revision",
           \A j \in 1..k-1 : s[j] = t[j]
    PROVE  RevisionIn(s, k) = RevisionIn(t, k) /\ ScopeIn(s, k) = ScopeIn(t, k)
<1>1. \A kinds : LatestIn(s, k, kinds) = LatestIn(t, k, kinds)
  BY LatestSame
<1>2. k \in Nat \ {0} /\ 1 \in 1..k-1
  OBVIOUS
<1>3. RevisionIn(s, k) = RevisionIn(t, k)
  <2> DEFINE r == LatestIn(s, k, {"revision"})
  <2>1. r \in 1..k-1
    BY <1>2, LatestRange
  <2>2. s[r] = t[r]
    BY <2>1
  <2> QED
    BY <1>1, <2>2 DEF RevisionIn
<1>4. ScopeIn(s, k) = ScopeIn(t, k)
  <2> DEFINE a == LatestIn(s, k, {"table", "copy"})
             g == LatestIn(s, k, {"group"})
  <2>1. a \in 0..k-1 /\ g \in 0..k-1
    BY <1>2, LatestRange
  <2>2. a > g => s[a] = t[a]
    BY <2>1
  <2>3. a = LatestIn(t, k, {"table", "copy"}) /\ g = LatestIn(t, k, {"group"})
    BY <1>1
  <2>4. ScopeIn(s, k) = IF a > g THEN TableOf(RevisionIn(s, k), s[a]) ELSE RevisionIn(s, k)
    BY DEF ScopeIn
  <2>5. ScopeIn(t, k) = IF a > g THEN TableOf(RevisionIn(t, k), t[a]) ELSE RevisionIn(t, k)
    BY <2>3 DEF ScopeIn
  <2> HIDE DEF a, g
  <2> QED
    BY <1>3, <2>2, <2>4, <2>5
<1> QED
  BY <1>3, <1>4

LEMMA SameCopies ==
    ASSUME NEW s, NEW t, NEW k \in Nat, k > 0, k > 1 => s[1].kind = "revision",
           \A j \in 1..k-1 : s[j] = t[j]
    PROVE  CopiesOk(s, k) <=> CopiesOk(t, k)
<1>1. \A j \in 1..k-1 : CopyOk(s, j) <=> CopyOk(t, j)
  <2> TAKE j \in 1..k-1
  <2>1. CASE j = 1
    <3>1. s[j].kind = "revision" /\ t[j].kind = "revision"
      BY <2>1
    <3> QED
      BY <3>1 DEF CopyOk
  <2>2. CASE j > 1
    <3>1. RevisionIn(s, j) = RevisionIn(t, j)
      BY <2>2, SameScope
    <3> QED
      BY <3>1 DEF CopyOk
  <2> QED
    BY <2>1, <2>2
<1> QED
  BY <1>1 DEF CopiesOk

-----------------------------------------------------------------------------
(* Tables and ids.                                                         *)

LEMMA TablesAreTables ==
    /\ Empty \in Table /\ DOMAIN Empty = {} /\ None \notin Table
    /\ \A t \in Table : DOMAIN t \subseteq Indices /\ \A i \in DOMAIN t : t[i] \in Guids
    /\ \A i \in Indices, g \in Guids : [j \in {i} |-> g] \in Table
<1>1. Empty \in Table /\ DOMAIN Empty = {}
  <2>1. Empty \in [{} -> Guids] /\ DOMAIN Empty = {}
    BY DEF Empty
  <2> QED
    BY <2>1 DEF Table
<1>2. \A t \in Table : DOMAIN t \subseteq Indices /\ \A i \in DOMAIN t : t[i] \in Guids
  BY DEF Table
<1>3. ASSUME NEW i \in Indices, NEW g \in Guids
      PROVE  [j \in {i} |-> g] \in Table
  <2> DEFINE t == [j \in {i} |-> g]
  <2>1. t \in [{i} -> Guids] /\ {i} \in SUBSET Indices
    OBVIOUS
  <2>2. \A a, b \in DOMAIN t : t[a] = t[b] => a = b
    OBVIOUS
  <2> HIDE DEF t
  <2>3. t \in Table
    BY <2>1, <2>2 DEF Table
  <2> QED
    BY <2>3 DEF t
<1> QED
  BY <1>1, <1>2, <1>3, NoneIsNothing

LEMMA EffectiveType ==
    ASSUME NEW t \in Table \cup {None}
    PROVE  /\ Effective(t) \in Table
           /\ \A id : /\ Resolvable(t, id) <=> id \in DOMAIN Effective(t)
                      /\ Resolved(t, id) = Resolved(Effective(t), id)
BY TablesAreTables DEF Effective, Resolvable, Resolved

LEMMA ResolvedInTable ==
    ASSUME NEW t \in Table, NEW id
    PROVE  /\ Resolvable(t, id) <=> id \in DOMAIN t
           /\ Resolved(t, id) \in Oid
BY TablesAreTables DEF Resolvable, Resolved, Oid

LEMMA ResolvedType ==
    ASSUME NEW t \in Table \cup {None}, NEW id
    PROVE  Resolved(t, id) \in Oid
BY EffectiveType, ResolvedInTable

LEMMA NodeShape ==
    ASSUME NEW node \in ScriptNode
    PROVE  /\ node.kind \in {"revision", "group", "table", "copy", "declare", "revise"}
           /\ node.kind = "revision" => node.table \in Table
           /\ node.kind = "table" => node.table \in Table
           /\ node.kind = "copy" => node.from \in Indices /\ node.to \in Indices
           /\ IsChange(node) => node.id \in Indices /\ node.data \in Data
           /\ node.kind = "declare" => node.jcid \in {"set", "blob"}
BY DEF ScriptNode, TableNode, Change, Declare, Revise, IsChange

LEMMA TableOfType ==
    ASSUME NEW t \in Table \cup {None}, NEW node \in ScriptNode,
           node.kind \in {"table", "copy"}, node.kind = "copy" => ~CopyRejected(t, node)
    PROVE  TableOf(t, node) \in Table
BY NodeShape, TablesAreTables DEF TableOf, CopyRejected

-----------------------------------------------------------------------------
(* Types.                                                                  *)

LEMMA ReadTypes ==
    ASSUME TypeOK, NEW node \in ScriptNode, NEW oid \in Oid \cup {None},
           Read(node, oid), UNCHANGED <<pos, oids2>>
    PROVE  /\ script' \in Seq(ScriptNode) /\ oids' \in Seq(Oid \cup {None})
           /\ Len(oids') = Len(script') /\ Len(script') = Len(script) + 1
           /\ pos' \in 1..Len(script')+1 /\ Len(oids2') = pos' - 1
BY DEF TypeOK, Read

LEMMA ReplayTypes ==
    ASSUME TypeOK, Indexing, NEW oid \in Oid \cup {None}, Replay(oid), UNCHANGED script
    PROVE  /\ oids2' \in Seq(Oid \cup {None}) /\ pos' \in 1..Len(script')+1
           /\ Len(oids2') = pos' - 1
           /\ Node \in ScriptNode
BY DEF TypeOK, Indexing, Replay, Node

LEMMA NodeType ==
    ASSUME TypeOK, Indexing
    PROVE  Node \in ScriptNode /\ pos \in 1..Len(script)
BY DEF TypeOK, Indexing, Node

LEMMA DecodedType ==
    ASSUME TypeOK, NEW jcid
    PROVE  Decoded(jcid) \in {None} \cup Properties
<1>1. pos \in Nat /\ current2 \in Table
  BY DEF TypeOK
<1>2. Resolved(current2, Node.data) \in Oid
  BY <1>1, ResolvedType
<1> QED
  BY <1>1, <1>2 DEF Decoded, Properties

LEMMA PriorType ==
    ASSUME TypeOK, NEW oid \in Oid
    PROVE  Prior(oid) \in ObjectRecord
BY DEF TypeOK, Prior, ObjectRecord

LEMMA PutType ==
    ASSUME TypeOK, NEW oid \in Oid, NEW record \in ObjectRecord, Put(oid, record)
    PROVE  /\ DOMAIN objects' = DOMAIN objects \cup {oid}
           /\ DOMAIN objects' \subseteq Oid
           /\ objects' \in [DOMAIN objects' -> ObjectRecord]
BY DEF TypeOK, Put

LEMMA TypeAtStart == Init => TypeOK
<1> SUFFICES ASSUME Init PROVE TypeOK
  OBVIOUS
<1>1. Empty \in Table /\ DOMAIN Empty = {}
  BY TablesAreTables
<1>2. objects \in [{} -> ObjectRecord] /\ DOMAIN objects = {}
  BY <1>1 DEF Init, Empty
<1>3. strict \in BOOLEAN
  BY DEF Init
<1> QED
  BY <1>1, <1>2, <1>3 DEF Init, TypeOK

LEMMA TypeStep == TypeOK /\ [Next]_vars => TypeOK'
<1> SUFFICES ASSUME TypeOK, [Next]_vars PROVE TypeOK'
  OBVIOUS
<1> USE DEF walk1, walk2
<1>0. strict' = strict
  BY DEF Next, vars, ReadRevision, ReadGroup, ReadTable, RejectTable, ReadChange, RejectChange,
     StartIndexing, IndexRevision, IndexGroup, IndexTable, IndexDeclaration, IndexRevise,
     RejectNode, EndIndexing, Stopped, Raise
<1>t. strict' \in BOOLEAN
  BY <1>0 DEF TypeOK
<1>1. CASE ReadRevision
  <2>1. PICK t \in Table \cup {None} :
          /\ base' = IF t # None THEN t ELSE IF script = <<>> THEN None ELSE Effective(base)
          /\ Read([kind |-> "revision", table |-> Effective(base')], None)
    BY <1>1 DEF ReadRevision
  <2>2. base' \in Table \cup {None}
    BY <2>1, EffectiveType DEF TypeOK
  <2>3. [kind |-> "revision", table |-> Effective(base')] \in ScriptNode
    BY <2>2, EffectiveType DEF ScriptNode
  <2>4. current' = base' /\ UNCHANGED <<strict, pc, walk2>>
    BY <1>1 DEF ReadRevision
  <2> QED
    BY <1>t, <2>1, <2>2, <2>3, <2>4, ReadTypes DEF TypeOK
<1>2. CASE ReadGroup
  <2>1. [kind |-> "group"] \in ScriptNode
    BY DEF ScriptNode
  <2> QED
    BY <1>t, <1>2, <2>1, ReadTypes DEF ReadGroup, TypeOK
<1>3. CASE ReadTable
  <2>1. PICK node \in TableNode : /\ node.kind = "copy" => ~CopyRejected(base, node)
                                  /\ current' = TableOf(base, node)
                                  /\ Read(node, None)
    BY <1>3 DEF ReadTable
  <2>2. node \in ScriptNode /\ node.kind \in {"table", "copy"}
    BY DEF ScriptNode, TableNode
  <2>3. current' \in Table
    BY <2>1, <2>2, TableOfType DEF TypeOK
  <2>4. UNCHANGED <<strict, pc, base, walk2>>
    BY <1>3 DEF ReadTable
  <2> QED
    BY <1>t, <2>1, <2>2, <2>3, <2>4, ReadTypes DEF TypeOK
<1>4. CASE ReadChange
  <2>1. PICK node \in Change : Read(node, Resolved(current, node.id))
    BY <1>4 DEF ReadChange
  <2>2. node \in ScriptNode
    BY DEF ScriptNode
  <2>3. Resolved(current, node.id) \in Oid \cup {None}
    BY ResolvedType DEF TypeOK
  <2>4. UNCHANGED <<strict, pc, base, current, walk2>>
    BY <1>4 DEF ReadChange
  <2> QED
    BY <1>t, <2>1, <2>2, <2>3, <2>4, ReadTypes DEF TypeOK
<1>5. CASE RejectTable \/ RejectChange \/ RejectNode
  BY <1>t, <1>5 DEF RejectTable, RejectChange, RejectNode, Raise, TypeOK
<1>6. CASE StartIndexing \/ EndIndexing
  BY <1>t, <1>6 DEF StartIndexing, EndIndexing, TypeOK
<1>7. CASE IndexRevision
  <2>1. Indexing /\ Node.kind = "revision" /\ Replay(None) /\ UNCHANGED <<strict, pc, walk1, objects>>
        /\ base2' = Node.table /\ current2' = Node.table
    BY <1>7 DEF IndexRevision
  <2>2. Node.table \in Table
    BY <2>1, NodeType, NodeShape
  <2> QED
    BY <1>t, <2>1, <2>2, ReplayTypes DEF TypeOK
<1>8. CASE IndexGroup
  <2>1. Indexing /\ Replay(None) /\ UNCHANGED <<strict, pc, walk1, base2, objects>> /\ current2' = base2
    BY <1>8 DEF IndexGroup
  <2> QED
    BY <1>t, <2>1, ReplayTypes DEF TypeOK
<1>9. CASE IndexTable
  <2>1. /\ Indexing /\ Replay(None) /\ UNCHANGED <<strict, pc, walk1, base2, objects>>
        /\ Node.kind \in {"table", "copy"} /\ ~RejectedNode /\ current2' = TableOf(base2, Node)
    BY <1>9 DEF IndexTable
  <2>2. Node.kind = "copy" => ~CopyRejected(base2, Node)
    BY <2>1 DEF RejectedNode
  <2>3. current2' \in Table
    BY <2>1, <2>2, NodeType, TableOfType DEF TypeOK
  <2> QED
    BY <1>t, <2>1, <2>3, ReplayTypes DEF TypeOK
<1>10. CASE IndexDeclaration
  <2> DEFINE oid == Resolved(current2, Node.id)
             record == [jcid |-> Node.jcid, properties |-> Decoded(Node.jcid)]
  <2>1. /\ Indexing /\ Node.kind = "declare" /\ Put(oid, record) /\ Replay(oid)
        /\ UNCHANGED <<strict, pc, walk1, base2, current2>>
    BY <1>10 DEF IndexDeclaration
  <2>2. oid \in Oid
    BY ResolvedType DEF TypeOK
  <2>3. record \in ObjectRecord
    BY <2>1, NodeType, NodeShape, DecodedType DEF ObjectRecord
  <2> HIDE DEF oid, record
  <2> QED
    BY <1>t, <2>1, <2>2, <2>3, ReplayTypes, PutType DEF TypeOK
<1>11. CASE IndexRevise
  <2> DEFINE oid == Resolved(current2, Node.id)
             new == Decoded(Prior(oid).jcid)
             record == [Prior(oid) EXCEPT !.properties = IF new # None THEN new ELSE @]
  <2>1. /\ Indexing /\ Put(oid, record) /\ Replay(oid)
        /\ UNCHANGED <<strict, pc, walk1, base2, current2>>
    BY <1>11 DEF IndexRevise
  <2>2. oid \in Oid
    BY ResolvedType DEF TypeOK
  <2>3. record \in ObjectRecord
    <3>1. Prior(oid) \in ObjectRecord
      BY <2>2, PriorType
    <3>2. new \in {None} \cup Properties
      BY DecodedType
    <3> HIDE DEF new, oid
    <3> QED
      BY <3>1, <3>2 DEF ObjectRecord
  <2> HIDE DEF oid, record
  <2> QED
    BY <1>t, <2>1, <2>2, <2>3, ReplayTypes, PutType DEF TypeOK
<1>12. CASE Stopped \/ UNCHANGED vars
  BY <1>12 DEF Stopped, vars, TypeOK
<1> QED
  BY <1>1, <1>2, <1>3, <1>4, <1>5, <1>6, <1>7, <1>8, <1>9, <1>10, <1>11, <1>12 DEF Next

(* The variables of the two walks always have values of their kinds.       *)
THEOREM TypeCorrect == Spec => []TypeOK
<1>1. Init => TypeOK
  BY TypeAtStart
<1>2. TypeOK /\ [Next]_vars => TypeOK'
  BY TypeStep
<1> QED
  BY <1>1, <1>2, PTL DEF Spec

-----------------------------------------------------------------------------
(* The first walk.                                                         *)

(* What one more node adds to a script, and what it leaves as it was.      *)
LEMMA Extended ==
    ASSUME TypeOK, Shape, NEW node \in ScriptNode, NEW oid, Read(node, oid),
           NEW k \in Nat, k = Len(script) + 1, script = <<>> => node.kind = "revision"
    PROVE  /\ Len(script') = k /\ script'[k] = node /\ oids'[k] = oid
           /\ \A j \in 1..k-1 : script'[j] = script[j] /\ oids'[j] = oids[j]
           /\ script'[1].kind = "revision"
           /\ \A j \in 2..k : /\ RevisionIn(script', j) = RevisionIn(script, j)
                              /\ ScopeIn(script', j) = ScopeIn(script, j)
           /\ \A j \in 1..k : CopiesOk(script', j) <=> CopiesOk(script, j)
           /\ RevisionIn(script', k+1) =
                IF node.kind = "revision" THEN node.table ELSE RevisionIn(script, k)
           /\ node.kind # "revision" => ScopeIn(script', k+1) =
                IF node.kind = "group" THEN RevisionIn(script, k)
                ELSE IF node.kind \in {"table", "copy"} THEN TableOf(RevisionIn(script, k), node)
                ELSE ScopeIn(script, k)
           /\ CopiesOk(script', k+1) <=>
                /\ CopiesOk(script, k)
                /\ node.kind = "copy" => node.from \in DOMAIN RevisionIn(script, k)
<1>1. /\ Len(script') = k /\ script'[k] = node /\ oids'[k] = oid
      /\ \A j \in 1..k-1 : script'[j] = script[j] /\ oids'[j] = oids[j]
  BY DEF TypeOK, Read
<1>2. script'[1].kind = "revision" /\ (k > 1 => script[1].kind = "revision")
  <2>1. script \in Seq(ScriptNode)
    BY DEF TypeOK
  <2>2. k = 1 => script = <<>>
    BY <2>1
  <2>3. k > 1 => script # <<>> /\ 1 \in 1..k-1
    BY <2>1
  <2> QED
    BY <1>1, <2>1, <2>2, <2>3 DEF Shape
<1>3. \A j \in 2..k : /\ RevisionIn(script', j) = RevisionIn(script, j)
                      /\ ScopeIn(script', j) = ScopeIn(script, j)
  <2> TAKE j \in 2..k
  <2>1. j \in Nat /\ j > 1 /\ \A i \in 1..j-1 : script'[i] = script[i]
    BY <1>1
  <2> QED
    BY <1>2, <2>1, SameScope
<1>4. \A j \in 1..k : CopiesOk(script', j) <=> CopiesOk(script, j)
  <2> TAKE j \in 1..k
  <2>1. j \in Nat /\ j > 0 /\ \A i \in 1..j-1 : script'[i] = script[i]
    BY <1>1
  <2> QED
    BY <1>2, <2>1, SameCopies
<1>5. k \in Nat \ {0} /\ k \in 1..k /\ (k > 1 => k \in 2..k)
  BY DEF TypeOK
<1>6. k > 1 \/ node.kind = "revision"
  BY DEF TypeOK
<1>7. RevisionIn(script', k+1) =
        IF node.kind = "revision" THEN node.table ELSE RevisionIn(script, k)
  BY <1>1, <1>3, <1>5, <1>6, RevisionAfter
<1>8. node.kind # "revision" => ScopeIn(script', k+1) =
        IF node.kind = "group" THEN RevisionIn(script, k)
        ELSE IF node.kind \in {"table", "copy"} THEN TableOf(RevisionIn(script, k), node)
        ELSE ScopeIn(script, k)
  <2> SUFFICES ASSUME node.kind # "revision"
               PROVE  ScopeIn(script', k+1) =
                        IF node.kind = "group" THEN RevisionIn(script, k)
                        ELSE IF node.kind \in {"table", "copy"}
                             THEN TableOf(RevisionIn(script, k), node)
                        ELSE ScopeIn(script, k)
    OBVIOUS
  <2>1. RevisionIn(script', k) = RevisionIn(script, k) /\ ScopeIn(script', k) = ScopeIn(script, k)
    BY <1>3, <1>5, <1>6
  <2> QED
    BY <1>1, <1>5, <2>1, ScopeAfter
<1>9. CopiesOk(script', k+1) <=>
        /\ CopiesOk(script, k)
        /\ node.kind = "copy" => node.from \in DOMAIN RevisionIn(script, k)
  <2>1. CopyOk(script', k) <=> (node.kind = "copy" => node.from \in DOMAIN RevisionIn(script, k))
    BY <1>1, <1>3, <1>5, <1>6 DEF CopyOk
  <2> QED
    BY <1>4, <1>5, <2>1, CopiesAfter
<1> QED
  BY <1>1, <1>2, <1>3, <1>4, <1>7, <1>8, <1>9

(* The nodes before the new one keep what First says of them.              *)
LEMMA FirstExtends ==
    ASSUME TypeOK, Shape, First, NEW node \in ScriptNode, NEW oid, Read(node, oid),
           UNCHANGED strict,
           NEW k \in Nat, k = Len(script) + 1, script = <<>> => node.kind = "revision",
           IF ~IsChange(node) THEN oid = None
           ELSE CopiesOk(script, k) =>
                  /\ oid = Resolved(ScopeIn(script, k), node.id)
                  /\ strict => node.id \in DOMAIN ScopeIn(script, k)
    PROVE  First'
<1>1. /\ Len(script') = k /\ script'[k] = node /\ oids'[k] = oid
      /\ \A j \in 1..k-1 : script'[j] = script[j] /\ oids'[j] = oids[j]
      /\ \A j \in 2..k : ScopeIn(script', j) = ScopeIn(script, j)
      /\ \A j \in 1..k : CopiesOk(script', j) <=> CopiesOk(script, j)
  BY Extended
<1>2. \A j \in 1..k : (j > 1 /\ j \in 2..k) \/ ~IsChange(script'[j])
  <2>1. script'[1].kind = "revision"
    BY Extended
  <2> QED
    BY <2>1 DEF IsChange
<1> SUFFICES ASSUME NEW j \in 1..k
             PROVE  IF ~IsChange(script'[j]) THEN oids'[j] = None
                    ELSE CopiesOk(script', j) =>
                           /\ oids'[j] = Resolved(ScopeIn(script', j), script'[j].id)
                           /\ strict' => script'[j].id \in DOMAIN ScopeIn(script', j)
  BY <1>1 DEF First
<1>3. CASE j < k
  <2>1. j \in 1..Len(script) /\ j \in 1..k-1
    BY <1>3
  <2> QED
    BY <1>1, <1>2, <2>1 DEF First
<1>4. CASE j = k
  BY <1>1, <1>2, <1>4
<1> QED
  BY <1>3, <1>4

LEMMA InGroupMeans ==
    ASSUME TypeOK, Shape, InGroup
    PROVE  /\ Len(script) \in Nat \ {0} /\ script # <<>>
           /\ script[Len(script)].kind # "revision" /\ Len(script) + 1 \in Nat
BY DEF TypeOK, InGroup

LEMMA CopiesHold ==
    ASSUME NEW t \in Table \cup {None}, NEW node \in ScriptNode, node.kind = "copy"
    PROVE  /\ t # None => (CopyRejected(t, node) <=> node.from \notin DOMAIN Effective(t))
           /\ strict => (CopyRejected(t, node) <=> node.from \notin DOMAIN Effective(t))
           /\ node.from \in DOMAIN Effective(t) => TableOf(Effective(t), node) = TableOf(t, node)
BY TablesAreTables DEF CopyRejected, Effective, TableOf

LEMMA Walk1Revision ==
    ASSUME TypeOK, TypeOK', Walk1Inv, ReadRevision
    PROVE  Walk1Inv'
<1> DEFINE k == Len(script) + 1
           node == [kind |-> "revision", table |-> Effective(base')]
<1>1. Read(node, None) /\ UNCHANGED strict
  BY DEF ReadRevision
<1>2. node \in ScriptNode /\ node.kind = "revision" /\ node.table = Effective(base')
  BY EffectiveType DEF ScriptNode, TypeOK
<1>3. k \in Nat /\ ~IsChange(node) /\ node.kind # "copy"
  BY DEF TypeOK, IsChange
<1>5. \A j \in 1..Len(script) : script[j].kind \notin {"revision", "group"} =>
         j > 1 /\ script[j-1].kind # "revision"
  BY DEF Walk1Inv, Shape
<1>6. Shape /\ Walk1 /\ First
  BY DEF Walk1Inv
<1> HIDE DEF node, k
<1>7. /\ Len(script') = k /\ script'[k] = node
      /\ \A j \in 1..k-1 : script'[j] = script[j]
      /\ script'[1].kind = "revision"
      /\ RevisionIn(script', k+1) = node.table
      /\ CopiesOk(script', k+1) <=> CopiesOk(script, k)
  BY <1>1, <1>2, <1>3, <1>6, Extended DEF k
<1>8. First'
  BY <1>1, <1>2, <1>3, <1>6, FirstExtends DEF k
<1>9. Shape'
  <2>1. \A j \in 1..k : script'[j].kind \notin {"revision", "group"} =>
          j > 1 /\ script'[j-1].kind # "revision"
    <3> TAKE j \in 1..k
    <3>1. CASE j = k
      BY <1>2, <1>7, <3>1
    <3>2. CASE j < k
      <4>1. j \in 1..Len(script) /\ j \in 1..k-1 /\ (j > 1 => j-1 \in 1..k-1)
        BY <1>3, <3>2 DEF k
      <4>2. script'[j] = script[j] /\ (j > 1 => script'[j-1] = script[j-1])
        BY <1>7, <4>1
      <4>3. script[j].kind \notin {"revision", "group"} => j > 1 /\ script[j-1].kind # "revision"
        BY <1>5, <4>1
      <4> QED
        BY <4>2, <4>3
    <3> QED
      BY <1>3, <3>1, <3>2
  <2> QED
    BY <1>7, <2>1 DEF Shape
<1>10. Walk1'
  <2>1. strict => CopiesOk(script, k)
    BY <1>6 DEF Walk1, k
  <2>2. ~InGroup'
    BY <1>2, <1>7 DEF InGroup
  <2> QED
    BY <1>1, <1>2, <1>7, <2>1, <2>2 DEF Walk1
<1> QED
  BY <1>8, <1>9, <1>10 DEF Walk1Inv

(* A node in a group, or its start; the revision's table stays.            *)
LEMMA Walk1Group ==
    ASSUME TypeOK, TypeOK', Walk1Inv, script # <<>>, UNCHANGED <<strict, base>>,
           NEW node \in ScriptNode, NEW oid, Read(node, oid),
           node.kind # "revision", node.kind # "group" => InGroup,
           node.kind = "copy" => ~CopyRejected(base, node),
           node.kind = "group" => current' = base,
           node.kind \in {"table", "copy"} => current' = TableOf(base, node),
           IF IsChange(node)
           THEN /\ ~Rejected(current, node.id) /\ oid = Resolved(current, node.id)
                /\ current' = current
           ELSE oid = None
    PROVE  Walk1Inv'
<1> DEFINE k == Len(script) + 1
<1>1. Shape /\ Walk1 /\ First
  BY DEF Walk1Inv
<1>2. k \in Nat /\ k > 1 /\ Len(script) = k - 1
  BY DEF TypeOK
<1>3. /\ Effective(base) = RevisionIn(script, k)
      /\ InGroup /\ CopiesOk(script, k) => Effective(current) = ScopeIn(script, k)
      /\ strict => CopiesOk(script, k)
  BY <1>1 DEF Walk1
<1> HIDE DEF k
<1>4. /\ Len(script') = k /\ script'[k] = node
      /\ \A j \in 1..k-1 : script'[j] = script[j]
      /\ script'[1].kind = "revision"
      /\ RevisionIn(script', k+1) = RevisionIn(script, k)
      /\ ScopeIn(script', k+1) =
           IF node.kind = "group" THEN RevisionIn(script, k)
           ELSE IF node.kind \in {"table", "copy"} THEN TableOf(RevisionIn(script, k), node)
           ELSE ScopeIn(script, k)
      /\ CopiesOk(script', k+1) <=>
           /\ CopiesOk(script, k)
           /\ node.kind = "copy" => node.from \in DOMAIN RevisionIn(script, k)
  <2>1. k = Len(script) + 1 /\ (script = <<>> => node.kind = "revision")
    BY <1>2
  <2> QED
    BY <1>1, <1>2, <2>1, Extended
<1>5. base \in Table \cup {None} /\ current \in Table \cup {None} /\ strict \in BOOLEAN
  BY DEF TypeOK
<1>6. First'
  <2>1. IF ~IsChange(node) THEN oid = None
        ELSE CopiesOk(script, k) =>
               /\ oid = Resolved(ScopeIn(script, k), node.id)
               /\ strict => node.id \in DOMAIN ScopeIn(script, k)
    <3> SUFFICES ASSUME IsChange(node), CopiesOk(script, k)
                 PROVE  /\ oid = Resolved(ScopeIn(script, k), node.id)
                        /\ strict => node.id \in DOMAIN ScopeIn(script, k)
      OBVIOUS
    <3>1. InGroup
      BY DEF IsChange
    <3>2. Effective(current) = ScopeIn(script, k)
      BY <1>3, <3>1
    <3>3. /\ Resolved(current, node.id) = Resolved(ScopeIn(script, k), node.id)
          /\ Resolvable(current, node.id) <=> node.id \in DOMAIN ScopeIn(script, k)
      BY <1>5, <3>2, EffectiveType
    <3> QED
      BY <3>3 DEF Rejected
  <2> QED
    BY <1>1, <1>2, <2>1, FirstExtends
<1>7. Shape'
  <2>1. \A j \in 1..k : script'[j].kind \notin {"revision", "group"} =>
          j > 1 /\ script'[j-1].kind # "revision"
    <3> TAKE j \in 1..k
    <3>1. CASE j = k
      <4> SUFFICES ASSUME node.kind # "group" PROVE j > 1 /\ script'[j-1].kind # "revision"
        BY <1>4, <3>1
      <4>1. script[k-1].kind # "revision" /\ k-1 \in 1..k-1
        BY <1>2, InGroupMeans DEF k, Walk1Inv
      <4> QED
        BY <1>2, <1>4, <3>1, <4>1
    <3>2. CASE j < k
      <4>1. j \in 1..Len(script) /\ j \in 1..k-1 /\ (j > 1 => j-1 \in 1..k-1)
        BY <1>2, <3>2
      <4>2. script'[j] = script[j] /\ (j > 1 => script'[j-1] = script[j-1])
        BY <1>4, <4>1
      <4>3. script[j].kind \notin {"revision", "group"} => j > 1 /\ script[j-1].kind # "revision"
        BY <1>1, <4>1 DEF Shape
      <4> QED
        BY <4>2, <4>3
    <3> QED
      BY <1>2, <3>1, <3>2
  <2> QED
    BY <1>4, <2>1 DEF Shape
<1>8. strict => CopiesOk(script', k+1)
  BY <1>3, <1>4, <1>5, CopiesHold
<1>9. CopiesOk(script', k+1) => Effective(current') = ScopeIn(script', k+1)
  <2> SUFFICES ASSUME CopiesOk(script', k+1)
               PROVE  Effective(current') = ScopeIn(script', k+1)
    OBVIOUS
  <2>1. CASE node.kind = "group"
    BY <1>3, <1>4, <2>1
  <2>2. CASE node.kind = "table"
    <3>1. current' = node.table /\ TableOf(RevisionIn(script, k), node) = node.table
      BY <2>2 DEF TableOf
    <3>2. Effective(node.table) = node.table
      BY <2>2, NodeShape, TablesAreTables DEF Effective
    <3> QED
      BY <1>4, <2>2, <3>1, <3>2
  <2>3. CASE node.kind = "copy"
    <3>1. node.from \in DOMAIN Effective(base)
      BY <1>3, <1>4, <2>3
    <3>2. current' = TableOf(Effective(base), node)
      BY <1>5, <2>3, <3>1, CopiesHold
    <3>3. current' \in Table
      BY <1>5, <2>3, <3>2, TableOfType
    <3>4. Effective(current') = current'
      BY <3>3, TablesAreTables DEF Effective
    <3> QED
      BY <1>3, <1>4, <2>3, <3>2, <3>4
  <2>4. CASE IsChange(node)
    BY <1>3, <1>4, <2>4 DEF IsChange
  <2> QED
    BY <2>1, <2>2, <2>3, <2>4, NodeShape DEF IsChange
<1>10. Walk1'
  BY <1>3, <1>4, <1>8, <1>9 DEF Walk1
<1> QED
  BY <1>6, <1>7, <1>10 DEF Walk1Inv

LEMMA Walk1Step == TypeOK /\ TypeOK' /\ Walk1Inv /\ [Next]_vars => Walk1Inv'
<1> SUFFICES ASSUME TypeOK, TypeOK', Walk1Inv, [Next]_vars PROVE Walk1Inv'
  OBVIOUS
<1>1. CASE ReadRevision
  BY <1>1, Walk1Revision
<1>2. CASE ReadGroup
  <2> DEFINE node == [kind |-> "group"]
  <2>1. node \in ScriptNode /\ node.kind = "group" /\ ~IsChange(node)
    BY DEF ScriptNode, IsChange
  <2>2. script # <<>> /\ UNCHANGED <<strict, base>> /\ Read(node, None) /\ current' = base
    BY <1>2 DEF ReadGroup
  <2> HIDE DEF node
  <2> QED
    BY <2>1, <2>2, Walk1Group
<1>3. CASE ReadTable
  <2>1. PICK node \in TableNode : /\ node.kind = "copy" => ~CopyRejected(base, node)
                                  /\ current' = TableOf(base, node)
                                  /\ Read(node, None)
    BY <1>3 DEF ReadTable
  <2>2. node \in ScriptNode /\ node.kind \in {"table", "copy"} /\ ~IsChange(node)
    BY DEF ScriptNode, TableNode, IsChange
  <2>3. script # <<>> /\ InGroup /\ UNCHANGED <<strict, base>>
    BY <1>3 DEF ReadTable, InGroup
  <2> QED
    BY <2>1, <2>2, <2>3, Walk1Group
<1>4. CASE ReadChange
  <2>1. PICK node \in Change : /\ ~Rejected(current, node.id)
                               /\ Read(node, Resolved(current, node.id))
    BY <1>4 DEF ReadChange
  <2>2. node \in ScriptNode /\ IsChange(node) /\ node.kind \in {"declare", "revise"}
    BY DEF ScriptNode, Change, Declare, Revise, IsChange
  <2>3. script # <<>> /\ InGroup /\ UNCHANGED <<strict, base, current>>
    BY <1>4 DEF ReadChange, InGroup
  <2> QED
    BY <2>1, <2>2, <2>3, Walk1Group
<1>5. CASE UNCHANGED <<strict, walk1>>
  BY <1>5 DEF walk1, Walk1Inv, Shape, Walk1, First, InGroup
<1>6. UNCHANGED <<strict, walk1>> \/ ReadRevision \/ ReadGroup \/ ReadTable \/ ReadChange
  BY DEF Next, RejectTable, RejectChange, RejectNode, Raise, StartIndexing, IndexRevision,
     IndexGroup, IndexTable, IndexDeclaration, IndexRevise, EndIndexing, Stopped, vars
<1> QED
  BY <1>1, <1>2, <1>3, <1>4, <1>5, <1>6

-----------------------------------------------------------------------------
(* The second walk.                                                        *)

(* What the tables of the second walk are when it reads a node of a group. *)
LEMMA InScope ==
    ASSUME TypeOK, Shape, Walk2, Indexing, Node.kind # "revision"
    PROVE  /\ pos > 1 /\ base2 = RevisionIn(script, pos)
           /\ Node.kind # "group" => current2 = ScopeIn(script, pos)
           /\ CopiesOk(script, pos)
<1>1. pos \in 1..Len(script) /\ Node = script[pos] /\ pos \in Nat
  BY DEF TypeOK, Indexing, Node
<1>2. pos > 1
  <2>1. script # <<>>
    BY <1>1 DEF TypeOK
  <2> QED
    BY <1>1, <2>1 DEF Shape
<1>3. Node.kind # "group" => script[pos-1].kind # "revision"
  BY <1>1 DEF Shape
<1> QED
  BY <1>2, <1>3 DEF Walk2

LEMMA Replayed ==
    ASSUME TypeOK, Shape, Walk2Inv, Indexing, UNCHANGED <<pc, script>>,
           NEW oid, Replay(oid),
           base2' = IF Node.kind = "revision" THEN Node.table ELSE base2,
           Node.kind = "group" => current2' = base2,
           Node.kind \in {"table", "copy"} => current2' = TableOf(base2, Node),
           Node.kind = "copy" => ~CopyRejected(base2, Node),
           IF IsChange(Node) THEN oid = Resolved(current2, Node.id) /\ current2' = current2
           ELSE oid = None
    PROVE  Walk2Inv'
<1>1. /\ pos \in 1..Len(script) /\ Node = script[pos] /\ pos \in Nat \ {0}
      /\ pc = "indexing" /\ oids2 \in Seq(Oid \cup {None}) /\ Len(oids2) = pos - 1
      /\ base2 \in Table
  BY DEF TypeOK, Indexing, Node
<1>2. pos' = pos + 1 /\ oids2' = Append(oids2, oid) /\ script' = script /\ pc' = pc
  BY DEF Replay
<1>3. Walk2 /\ Second
  BY DEF Walk2Inv
<1>4. Node.kind \in {"revision", "group", "table", "copy", "declare", "revise"}
  BY NodeType, NodeShape
<1>5. base2' = RevisionIn(script, pos+1)
  BY <1>1, <1>3, InScope, RevisionAfter
<1>6. Node.kind # "revision" => current2' = ScopeIn(script, pos+1)
  <2> SUFFICES ASSUME Node.kind # "revision" PROVE current2' = ScopeIn(script, pos+1)
    OBVIOUS
  <2>1. base2 = RevisionIn(script, pos) /\ (Node.kind # "group" => current2 = ScopeIn(script, pos))
    BY <1>3, InScope
  <2>2. ScopeIn(script, pos+1) =
          IF Node.kind = "group" THEN base2
          ELSE IF Node.kind \in {"table", "copy"} THEN TableOf(base2, Node)
          ELSE current2
    BY <1>1, <2>1, ScopeAfter
  <2> QED
    BY <1>4, <2>2 DEF IsChange
<1>7. CopiesOk(script, pos+1)
  <2>1. CopiesOk(script, pos)
    BY <1>1, <1>3, InScope DEF Walk2, CopiesOk
  <2>2. CopyOk(script, pos)
    <3> SUFFICES ASSUME Node.kind = "copy" PROVE Node.from \in DOMAIN RevisionIn(script, pos)
      BY <1>1 DEF CopyOk
    <3>1. base2 = RevisionIn(script, pos) /\ base2 # None
      BY <1>1, <1>3, InScope, TablesAreTables
    <3> QED
      BY <3>1 DEF CopyRejected
  <2> QED
    BY <1>1, <2>1, <2>2, CopiesAfter
<1>8. Walk2'
  BY <1>1, <1>2, <1>5, <1>6, <1>7 DEF Walk2
<1>9. Second'
  <2> SUFFICES ASSUME NEW k \in 1..pos
               PROVE  oids2'[k] = IF IsChange(script[k])
                                  THEN Resolved(ScopeIn(script, k), script[k].id) ELSE None
    BY <1>1, <1>2 DEF Second
  <2>1. CASE k < pos
    <3>1. k \in 1..pos-1 /\ oids2'[k] = oids2[k]
      BY <1>1, <1>2, <2>1
    <3> QED
      BY <1>3, <3>1 DEF Second
  <2>2. CASE k = pos
    <3>1. oids2'[k] = oid
      BY <1>1, <1>2, <2>2
    <3>2. IsChange(Node) => current2 = ScopeIn(script, pos)
      BY <1>3, InScope DEF IsChange
    <3> QED
      BY <1>1, <2>2, <3>1, <3>2
  <2> QED
    BY <1>1, <2>1, <2>2
<1> QED
  BY <1>8, <1>9 DEF Walk2Inv

LEMMA Walk2Step == TypeOK /\ Shape /\ Walk2Inv /\ [Next]_vars => Walk2Inv'
<1> SUFFICES ASSUME TypeOK, Shape, Walk2Inv, [Next]_vars PROVE Walk2Inv'
  OBVIOUS
<1>1. CASE pc = "resolving"
  <2>1. pos = 1 /\ pos' = 1
    BY <1>1 DEF Walk2Inv, Walk2, Next, vars, walk2, ReadRevision, ReadGroup, ReadTable,
       RejectTable, ReadChange, RejectChange, Raise, StartIndexing, IndexRevision, IndexGroup,
       IndexTable, IndexDeclaration, IndexRevise, RejectNode, Indexing, EndIndexing, Stopped
  <2> QED
    BY <2>1 DEF Walk2Inv, Walk2, Second
<1>2. CASE UNCHANGED <<walk1, walk2>> /\ pc' # "resolving"
  BY <1>2 DEF walk1, walk2, Walk2Inv, Walk2, Second
<1>3. CASE UNCHANGED vars
  BY <1>3 DEF vars, walk1, walk2, Walk2Inv, Walk2, Second
<1>4. CASE IndexRevision
  <2>1. /\ Indexing /\ Node.kind = "revision" /\ base2' = Node.table /\ Replay(None)
        /\ UNCHANGED <<pc, script>> /\ ~IsChange(Node)
    BY <1>4 DEF IndexRevision, walk1, IsChange
  <2> QED
    BY <2>1, Replayed DEF Walk2Inv
<1>5. CASE IndexGroup
  <2>1. /\ Indexing /\ Node.kind = "group" /\ current2' = base2 /\ Replay(None)
        /\ UNCHANGED <<pc, script, base2>> /\ ~IsChange(Node)
    BY <1>5 DEF IndexGroup, walk1, IsChange
  <2> QED
    BY <2>1, Replayed
<1>6. CASE IndexTable
  <2>1. /\ Indexing /\ Node.kind \in {"table", "copy"} /\ current2' = TableOf(base2, Node)
        /\ Replay(None) /\ UNCHANGED <<pc, script, base2>> /\ ~IsChange(Node)
        /\ Node.kind = "copy" => ~CopyRejected(base2, Node)
    BY <1>6 DEF IndexTable, walk1, RejectedNode, IsChange
  <2> QED
    BY <2>1, Replayed
<1>7. CASE IndexDeclaration \/ IndexRevise
  <2>1. /\ Indexing /\ IsChange(Node) /\ Replay(Resolved(current2, Node.id))
        /\ UNCHANGED <<pc, script, base2, current2>> /\ Node.kind \in {"declare", "revise"}
    BY <1>7 DEF IndexDeclaration, IndexRevise, walk1, IsChange
  <2> QED
    BY <2>1, Replayed
<1>8. \/ pc = "resolving" \/ UNCHANGED vars \/ IndexRevision \/ IndexGroup \/ IndexTable
      \/ IndexDeclaration \/ IndexRevise
      \/ UNCHANGED <<walk1, walk2>> /\ pc' # "resolving"
  BY DEF Next, ReadRevision, ReadGroup, ReadTable, RejectTable, ReadChange, RejectChange, Reading,
     StartIndexing, RejectNode, Raise, EndIndexing, Stopped
<1> QED
  BY <1>1, <1>2, <1>3, <1>4, <1>5, <1>6, <1>7, <1>8

-----------------------------------------------------------------------------
(* Both walks agree.                                                       *)

LEMMA InvAtStart == Init => IInv
<1> SUFFICES ASSUME Init PROVE IInv
  OBVIOUS
<1>1. TypeOK
  BY TypeAtStart
<1>2. Len(script) = 0 /\ script = <<>> /\ pos = 1 /\ Len(script) + 1 - 1 = 0
  BY DEF Init
<1>3. Walk1Inv
  BY <1>2 DEF Walk1Inv, Shape, Walk1, First, InGroup, CopiesOk
<1>4. Walk2Inv
  BY <1>2 DEF Init, Walk2Inv, Walk2, Second
<1> QED
  BY <1>1, <1>3, <1>4 DEF IInv

(* Each walk has the tables in scope and has resolved every id with them.  *)
THEOREM WalksInvariant == Spec => []IInv
<1>1. IInv /\ [Next]_vars => IInv'
  <2> SUFFICES ASSUME TypeOK, Walk1Inv, Walk2Inv, [Next]_vars
               PROVE  TypeOK' /\ Walk1Inv' /\ Walk2Inv'
    BY DEF IInv
  <2>1. TypeOK'
    BY TypeStep
  <2>2. Walk1Inv'
    BY <2>1, Walk1Step
  <2>3. Walk2Inv'
    BY Walk2Step DEF Walk1Inv
  <2> QED
    BY <2>1, <2>2, <2>3
<1> QED
  BY <1>1, InvAtStart, PTL DEF Spec

(* Both walks resolve every id of the file to the same object, whatever    *)
(* tables and groups the file has, however many and in whatever order.     *)
THEOREM ResolvedAlike == Spec => []WalksResolveAlike
<1>1. IInv => WalksResolveAlike
  <2> SUFFICES ASSUME TypeOK, Walk1Inv, Walk2Inv, NEW k \in 1..pos-1 PROVE oids2[k] = oids[k]
    BY DEF WalksResolveAlike, IInv
  <2>1. k \in 1..Len(script) /\ pos > 1
    BY DEF TypeOK
  <2>2. CopiesOk(script, k)
    <3>1. CopiesOk(script, pos) /\ 1..k-1 \subseteq 1..pos-1
      BY <2>1 DEF Walk2Inv, Walk2, TypeOK
    <3> QED
      BY <3>1 DEF CopiesOk
  <2> QED
    BY <2>1, <2>2 DEF Walk1Inv, First, Walk2Inv, Second
<1> QED
  BY <1>1, WalksInvariant, PTL

(* In strict mode the second walk rejects nothing the first one accepted:  *)
(* every id and every copied entry it needs is in the tables it has.       *)
THEOREM StrictAccepts == Spec => StrictSecondWalkAccepts
<1>1. IInv /\ [Next]_vars => [strict /\ pc = "indexing" => pc' # "failed"]_vars
  <2> SUFFICES ASSUME TypeOK, Walk1Inv, Walk2Inv, Next, strict, pc = "indexing", pc' = "failed"
               PROVE  FALSE
    BY DEF IInv, vars
  <2>1. Indexing /\ RejectedNode
    BY DEF Next, ReadRevision, ReadGroup, ReadTable, RejectTable, ReadChange, RejectChange,
       Reading, StartIndexing, IndexRevision, IndexGroup, IndexTable, IndexDeclaration,
       IndexRevise, RejectNode, EndIndexing, Stopped
  <2>2. pos \in 1..Len(script) /\ Node = script[pos] /\ pos \in Nat /\ base2 \in Table
        /\ current2 \in Table
    BY <2>1 DEF Indexing, TypeOK, Node
  <2>3. Node.kind # "revision"
    BY <2>1 DEF RejectedNode
  <2>4. /\ base2 = RevisionIn(script, pos) /\ CopiesOk(script, pos)
        /\ Node.kind # "group" => current2 = ScopeIn(script, pos)
    BY <2>1, <2>3, InScope DEF Walk1Inv, Walk2Inv
  <2>5. CopyOk(script, pos)
    <3>1. CopiesOk(script, Len(script)+1) /\ pos \in 1..(Len(script)+1)-1
      BY <2>2 DEF Walk1Inv, Walk1
    <3> QED
      BY <3>1 DEF CopiesOk
  <2>6. CASE Node.kind = "copy" /\ CopyRejected(base2, Node)
    BY <2>2, <2>4, <2>5, <2>6, TablesAreTables DEF CopyOk, CopyRejected
  <2>7. CASE Node.kind \in {"declare", "revise"} /\ Rejected(current2, Node.id)
    <3>1. Node.id \in DOMAIN current2
      BY <2>2, <2>4, <2>7 DEF Walk1Inv, First, IsChange
    <3> QED
      BY <2>2, <2>7, <3>1, ResolvedInTable DEF Rejected
  <2> QED
    BY <2>1, <2>6, <2>7 DEF RejectedNode
<1> QED
  BY <1>1, WalksInvariant, PTL DEF Spec, StrictSecondWalkAccepts

-----------------------------------------------------------------------------
(* The replay.                                                             *)

LEMMA ScopeAtIs ==
    ASSUME NEW k \in Nat
    PROVE  ScopeAt(k) = ScopeIn(script, k)
BY DEF ScopeAt, ScopeIn, RevisionIn, LatestIn, LatestOf

LEMMA DeclaredRange ==
    ASSUME TypeOK, NEW o
    PROVE  /\ Declared(o) \in 0..pos-1
           /\ Declared(o) # 0 => Declared(o) \in Changes(o)
           /\ \A k \in Changes(o) : script[k].kind = "declare" => k <= Declared(o)
<1> DEFINE S == {0} \cup {k \in Changes(o) : script[k].kind = "declare"}
<1>1. pos \in Nat \ {0} /\ Changes(o) \subseteq 1..pos-1
  BY DEF TypeOK, Changes
<1>2. S \subseteq Nat /\ S # {} /\ \A x \in S : x <= pos
  BY <1>1
<1>3. Max(S) \in S /\ \A x \in S : x <= Max(S)
  BY <1>1, <1>2, MaxOf
<1>4. Max(S) = Declared(o)
  BY DEF Declared
<1> HIDE DEF S
<1>5. \A x \in S : x \in 0..pos-1 /\ (x # 0 => x \in Changes(o))
  BY <1>1 DEF S
<1>6. \A k \in Changes(o) : script[k].kind = "declare" => k \in S
  BY DEF S
<1> QED
  BY <1>3, <1>4, <1>5, <1>6

(* One more change of oid, and none of any other object.                   *)
LEMMA ChangesAfter ==
    ASSUME TypeOK, Indexing, NEW oid, Replay(oid), NEW o
    PROVE  /\ Changes(o)' = IF o = oid THEN Changes(o) \cup {pos} ELSE Changes(o)
           /\ Changes(o) \subseteq 1..pos-1
<1>1. pos \in Nat \ {0} /\ oids2 \in Seq(Oid \cup {None}) /\ Len(oids2) = pos - 1
  BY DEF TypeOK
<1>2. pos' = pos + 1 /\ oids2' = Append(oids2, oid)
  BY DEF Replay
<1>3. oids2'[pos] = oid /\ \A k \in 1..pos-1 : oids2'[k] = oids2[k]
  BY <1>1, <1>2
<1>4. 1..pos'-1 = 1..pos-1 \cup {pos}
  BY <1>1, <1>2
<1> QED
  BY <1>3, <1>4 DEF Changes

LEMMA SameDecoding ==
    ASSUME UNCHANGED <<strict, script>>
    PROVE  \A k : Decodable(k)' = Decodable(k) /\ DecodedFrom(k)' = DecodedFrom(k)
<1>1. \A k : ScopeAt(k)' = ScopeAt(k)
  BY DEF ScopeAt, LatestOf
<1> QED
  BY <1>1 DEF Decodable, DecodedFrom, Rejected

LEMMA SameHistory ==
    ASSUME UNCHANGED <<strict, script>>, NEW o, Changes(o)' = Changes(o)
    PROVE  KindOf(o)' = KindOf(o) /\ PropertiesOf(o)' = PropertiesOf(o)
<1>1. Declared(o)' = Declared(o)
  BY DEF Declared
<1>2. Good(o)' = Good(o)
  BY <1>1, SameDecoding DEF Good
<1>3. KindOf(o)' = KindOf(o)
  BY <1>1 DEF KindOf
<1> QED
  BY <1>2, <1>3, SameDecoding DEF PropertiesOf

(* A declaration starts the history of an object anew.                     *)
LEMMA HistoryOfDeclaration ==
    ASSUME TypeOK, Indexing, NEW oid, Replay(oid), UNCHANGED <<strict, script>>,
           Node.kind = "declare"
    PROVE  /\ KindOf(oid)' = Node.jcid
           /\ PropertiesOf(oid)' =
                IF Node.jcid # "set" \/ ~Decodable(pos) THEN None ELSE DecodedFrom(pos)
<1>1. Changes(oid)' = Changes(oid) \cup {pos} /\ Changes(oid) \subseteq 1..pos-1
  BY ChangesAfter
<1>2. pos \in Nat \ {0} /\ script[pos].kind = "declare" /\ Node = script[pos]
  BY DEF TypeOK, Node
<1>3. Declared(oid)' = pos
  <2> DEFINE S == {0} \cup {k \in Changes(oid)' : script[k].kind = "declare"}
  <2>1. S \subseteq Nat /\ pos \in S /\ \A x \in S : x <= pos
    BY <1>1, <1>2
  <2>2. Max(S) = pos
    BY <2>1, MaxIs
  <2> QED
    BY <2>2 DEF Declared
<1>4. KindOf(oid)' = Node.jcid
  BY <1>2, <1>3 DEF KindOf
<1>5. Good(oid)' = IF Decodable(pos) THEN {pos} ELSE {}
  <2>1. Good(oid)' = {k \in Changes(oid) \cup {pos} : k >= pos /\ Decodable(k)}
    BY <1>1, <1>3, SameDecoding DEF Good
  <2>2. \A k \in Changes(oid) : ~(k >= pos)
    BY <1>1, <1>2
  <2> QED
    BY <1>2, <2>1, <2>2
<1>6. Decodable(pos) => Max(Good(oid)') = pos
  <2>1. \A x \in {pos} : x <= pos
    BY <1>2
  <2>2. Max({pos}) = pos
    BY <1>2, <2>1, MaxIs
  <2> QED
    BY <1>5, <2>2
<1> QED
  BY <1>4, <1>5, <1>6, SameDecoding DEF PropertiesOf

(* A revision adds to it.                                                  *)
LEMMA HistoryOfRevision ==
    ASSUME TypeOK, Indexing, NEW oid, Replay(oid), UNCHANGED <<strict, script>>,
           Node.kind = "revise"
    PROVE  /\ KindOf(oid)' = KindOf(oid)
           /\ PropertiesOf(oid)' = IF KindOf(oid) # "set" THEN None
                                   ELSE IF Decodable(pos) THEN DecodedFrom(pos)
                                   ELSE PropertiesOf(oid)
<1>1. Changes(oid)' = Changes(oid) \cup {pos} /\ Changes(oid) \subseteq 1..pos-1
  BY ChangesAfter
<1>2. pos \in Nat \ {0} /\ script[pos].kind = "revise" /\ Node = script[pos]
  BY DEF TypeOK, Node
<1>3. Declared(oid)' = Declared(oid)
  <2>1. {k \in Changes(oid)' : script[k].kind = "declare"}
          = {k \in Changes(oid) : script[k].kind = "declare"}
    BY <1>1, <1>2
  <2> QED
    BY <2>1 DEF Declared
<1>4. KindOf(oid)' = KindOf(oid)
  BY <1>3 DEF KindOf
<1>5. Good(oid)' = IF Decodable(pos) THEN Good(oid) \cup {pos} ELSE Good(oid)
  <2>1. Good(oid)' = {k \in Changes(oid) \cup {pos} : k >= Declared(oid) /\ Decodable(k)}
    BY <1>1, <1>3, SameDecoding DEF Good
  <2>2. pos >= Declared(oid)
    BY <1>2, DeclaredRange
  <2> QED
    BY <2>1, <2>2 DEF Good
<1>6. Decodable(pos) => Max(Good(oid)') = pos
  <2>1. \A x \in Good(oid) \cup {pos} : x \in Nat /\ x <= pos
    BY <1>1, <1>2 DEF Good
  <2>2. Max(Good(oid) \cup {pos}) = pos
    BY <2>1, MaxIs
  <2> QED
    BY <1>5, <2>2
<1>7. CASE Decodable(pos)
  BY <1>4, <1>5, <1>6, <1>7, SameDecoding DEF PropertiesOf
<1>8. CASE ~Decodable(pos)
  BY <1>4, <1>5, <1>8, SameDecoding DEF PropertiesOf
<1> QED
  BY <1>4, <1>7, <1>8

(* What the second walk decodes is what the tables in scope say.           *)
LEMMA DecodedIs ==
    ASSUME TypeOK, Walk1Inv, Walk2Inv, Indexing, IsChange(Node), NEW jcid
    PROVE  /\ Decoded(jcid) = IF jcid # "set" \/ ~Decodable(pos) THEN None ELSE DecodedFrom(pos)
           /\ DecodedFrom(pos) # None
<1>1. pos \in Nat /\ Node = script[pos] /\ current2 \in Table
  BY DEF TypeOK, Node
<1>2. Node.data \in Data
  BY NodeType, NodeShape
<1>3. current2 = ScopeAt(pos)
  BY <1>1, InScope, ScopeAtIs DEF Walk1Inv, Walk2Inv, IsChange
<1>4. DecodedFrom(pos) # None
  <2>1. Resolved(current2, Node.data) \in Oid
    BY <1>1, ResolvedType
  <2>2. DecodedFrom(pos) \in Properties
    BY <1>1, <1>3, <2>1 DEF DecodedFrom, Properties
  <2> QED
    BY <2>2, NoneIsNothing
<1> SUFFICES Decoded(jcid) = IF jcid # "set" \/ ~Decodable(pos) THEN None ELSE DecodedFrom(pos)
  BY <1>4
<1>5. CASE Node.data = Broken
  BY <1>1, <1>5 DEF Decoded, Decodable
<1>6. CASE Node.data = Plain
  BY <1>1, <1>6, DataKinds DEF Decoded, Decodable, DecodedFrom
<1>7. CASE Node.data \in Indices
  <2>1. Node.data # Plain /\ Node.data # Broken
    BY <1>7, DataKinds
  <2> QED
    BY <1>1, <1>3, <1>7, <2>1 DEF Decoded, Decodable, DecodedFrom
<1> QED
  BY <1>2, <1>5, <1>6, <1>7 DEF Data

HoldsReplayOf(o) ==
    /\ o \in DOMAIN objects <=> Changes(o) # {}
    /\ o \in DOMAIN objects =>
         objects[o] = [jcid |-> KindOf(o), properties |-> PropertiesOf(o)]

(* A change replayed into the index.                                       *)
LEMMA ChangeReplayed ==
    ASSUME TypeOK, Indexing, UNCHANGED <<strict, script>>,
           NEW oid \in Oid, NEW record, Replay(oid), Put(oid, record),
           record = [jcid |-> KindOf(oid)', properties |-> PropertiesOf(oid)'],
           NEW o \in Oid, HoldsReplayOf(o)
    PROVE  HoldsReplayOf(o)'
<1>1. Changes(o)' = IF o = oid THEN Changes(o) \cup {pos} ELSE Changes(o)
  BY ChangesAfter
<1>2. /\ DOMAIN objects' = DOMAIN objects \cup {oid}
      /\ \A x \in DOMAIN objects' : objects'[x] = IF x = oid THEN record ELSE objects[x]
  BY DEF Put
<1>3. CASE o = oid
  BY <1>1, <1>2, <1>3 DEF HoldsReplayOf
<1>4. CASE o # oid
  <2>1. KindOf(o)' = KindOf(o) /\ PropertiesOf(o)' = PropertiesOf(o)
    BY <1>1, <1>4, SameHistory
  <2> QED
    BY <1>1, <1>2, <1>4, <2>1 DEF HoldsReplayOf
<1> QED
  BY <1>3, <1>4

LEMMA ReplayStep ==
    ASSUME TypeOK, Walk1Inv, Walk2Inv, IndexIsReplay, [Next]_vars
    PROVE  IndexIsReplay'
<1> SUFFICES ASSUME NEW o \in Oid PROVE HoldsReplayOf(o)'
  BY DEF IndexIsReplay, HoldsReplayOf
<1>0. HoldsReplayOf(o)
  BY DEF IndexIsReplay, HoldsReplayOf
<1>1. CASE IndexDeclaration
  <2>1. Resolved(current2, Node.id) \in Oid
    BY ResolvedType DEF TypeOK
  <2>2. PICK oid \in Oid : oid = Resolved(current2, Node.id)
    BY <2>1
  <2>3. PICK record : record = [jcid |-> Node.jcid, properties |-> Decoded(Node.jcid)]
    OBVIOUS
  <2>4. /\ Indexing /\ Node.kind = "declare" /\ IsChange(Node) /\ Put(oid, record) /\ Replay(oid)
        /\ UNCHANGED <<strict, script>>
    BY <1>1, <2>2, <2>3 DEF IndexDeclaration, IsChange, walk1
  <2>5. record = [jcid |-> KindOf(oid)', properties |-> PropertiesOf(oid)']
    BY <2>3, <2>4, HistoryOfDeclaration, DecodedIs
  <2> QED
    BY <1>0, <2>4, <2>5, ChangeReplayed
<1>2. CASE IndexRevise
  <2>1. Resolved(current2, Node.id) \in Oid
    BY ResolvedType DEF TypeOK
  <2>2. PICK oid \in Oid : oid = Resolved(current2, Node.id)
    BY <2>1
  <2>3. PICK prior : prior = Prior(oid)
    OBVIOUS
  <2>4. PICK new : new = Decoded(prior.jcid)
    OBVIOUS
  <2>5. PICK record : record = [prior EXCEPT !.properties = IF new # None THEN new ELSE @]
    OBVIOUS
  <2>6. /\ Indexing /\ Node.kind = "revise" /\ IsChange(Node) /\ Put(oid, record) /\ Replay(oid)
        /\ UNCHANGED <<strict, script>>
    BY <1>2, <2>2, <2>3, <2>4, <2>5 DEF IndexRevise, IsChange, walk1
  <2>7. HoldsReplayOf(oid)
    BY DEF IndexIsReplay, HoldsReplayOf
  <2>8. prior = [jcid |-> KindOf(oid), properties |-> PropertiesOf(oid)]
    <3>1. CASE oid \in DOMAIN objects
      BY <2>3, <2>7, <3>1 DEF HoldsReplayOf, Prior
    <3>2. CASE oid \notin DOMAIN objects
      <4>1. Changes(oid) = {}
        BY <2>7, <3>2 DEF HoldsReplayOf
      <4>2. Declared(oid) = 0
        BY <4>1, DeclaredRange
      <4>3. KindOf(oid) = None
        BY <4>2 DEF KindOf
      <4>4. PropertiesOf(oid) = None
        BY <4>3, NoneIsNothing DEF PropertiesOf
      <4> QED
        BY <2>3, <3>2, <4>3, <4>4 DEF Prior
    <3> QED
      BY <3>1, <3>2
  <2>9. /\ new = IF KindOf(oid) # "set" \/ ~Decodable(pos) THEN None ELSE DecodedFrom(pos)
        /\ DecodedFrom(pos) # None
    BY <2>4, <2>6, <2>8, DecodedIs
  <2>10. record = [jcid |-> KindOf(oid), properties |-> IF new # None THEN new ELSE PropertiesOf(oid)]
    BY <2>5, <2>8
  <2>11. KindOf(oid) # "set" => PropertiesOf(oid) = None
    BY DEF PropertiesOf
  <2>12. /\ KindOf(oid)' = KindOf(oid)
         /\ PropertiesOf(oid)' = IF KindOf(oid) # "set" THEN None
                                 ELSE IF Decodable(pos) THEN DecodedFrom(pos)
                                 ELSE PropertiesOf(oid)
    BY <2>6, HistoryOfRevision
  <2>13. record = [jcid |-> KindOf(oid)', properties |-> PropertiesOf(oid)']
    BY <2>9, <2>10, <2>11, <2>12
  <2> QED
    BY <1>0, <2>6, <2>13, ChangeReplayed
<1>3. CASE IndexRevision \/ IndexGroup \/ IndexTable
  <2>1. Indexing /\ Replay(None) /\ UNCHANGED <<strict, script, objects>>
    BY <1>3 DEF IndexRevision, IndexGroup, IndexTable, walk1
  <2>2. Changes(o)' = Changes(o)
    BY <2>1, ChangesAfter, NoneIsNothing
  <2> QED
    BY <1>0, <2>1, <2>2, SameHistory DEF HoldsReplayOf
<1>4. CASE UNCHANGED <<strict, walk1, walk2>>
  <2>1. Changes(o)' = Changes(o)
    BY <1>4 DEF walk2, Changes
  <2> QED
    BY <1>0, <1>4, <2>1, SameHistory DEF HoldsReplayOf, walk1, walk2
<1>5. CASE pc = "resolving" /\ UNCHANGED walk2
  <2>1. 1..pos-1 = {}
    BY <1>5 DEF Walk2Inv, Walk2
  <2>2. Changes(o) = {} /\ Changes(o)' = {}
    BY <1>5, <2>1 DEF Changes, walk2
  <2> QED
    BY <1>0, <1>5, <2>2 DEF HoldsReplayOf, walk2
<1>6. \/ IndexDeclaration \/ IndexRevise \/ IndexRevision \/ IndexGroup \/ IndexTable
      \/ UNCHANGED <<strict, walk1, walk2>>
      \/ pc = "resolving" /\ UNCHANGED walk2
  BY DEF Next, vars, ReadRevision, ReadGroup, ReadTable, RejectTable, ReadChange, RejectChange,
     Reading, StartIndexing, RejectNode, Raise, EndIndexing, Stopped
<1> QED
  BY <1>1, <1>2, <1>3, <1>4, <1>5, <1>6

(* The object index is the replay of the changes read so far: the kind of  *)
(* the latest declaration and the latest data since then that decodes.     *)
THEOREM IndexReplays == Spec => []IndexIsReplay
<1>1. Init => IndexIsReplay
  <2> SUFFICES ASSUME Init, NEW o \in Oid PROVE HoldsReplayOf(o)
    BY DEF IndexIsReplay, HoldsReplayOf
  <2>1. pos = 1 /\ objects = Empty /\ 1..1-1 = {}
    BY DEF Init
  <2> QED
    BY <2>1, TablesAreTables DEF HoldsReplayOf, Changes
<1>2. IInv /\ IndexIsReplay /\ [Next]_vars => IndexIsReplay'
  BY ReplayStep DEF IInv
<1> QED
  BY <1>1, <1>2, WalksInvariant, PTL DEF Spec
=============================================================================
