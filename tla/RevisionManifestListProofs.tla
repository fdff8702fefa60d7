----------------------- MODULE RevisionManifestListProofs -----------------------
(***************************************************************************)
(* Proofs about _parse_revision_manifest_list_revisions and about what     *)
(* RevisionSelection makes of its result, for lists of any length over any *)
(* ids, contexts and roles.                                                *)
(***************************************************************************)
EXTENDS RevisionSelection, SequenceTheorems, FiniteSetTheorems,
        WellFoundedInduction, TLAPS

Rejects == RejectStart \/ RejectEnd \/ RejectRole \/ RejectUnmarked
             \/ RejectContent \/ RejectUnfinished \/ RejectMixed

(* Steps that only read on, stop, or raise.                                *)
Passes == Rejects \/ IgnoreOutside \/ EndOfList \/ Stopped

LEMMA PassEffect ==
    ASSUME Passes
    PROVE  /\ UNCHANGED <<started, revisions, assigned, inside, current, pos, declared>>
           /\ pc' \in {pc, "done", "failed"}
           /\ pc' = "done" /\ pc # "done" =>
                ~inside /\ ~(Strict /\ MixedEncryption)
BY DEF Passes, Rejects, RejectStart, RejectEnd, RejectRole, RejectUnmarked,
       RejectContent, RejectUnfinished, RejectMixed, Raise, IgnoreOutside,
       EndOfList, Stopped, vars

LEMMA NextCases ==
    ASSUME [Next]_vars
    PROVE  StartRevision \/ DeclareRole \/ ReadMarker \/ ReadContent
             \/ EndRevision \/ Passes \/ UNCHANGED vars
BY DEF Next, Passes, Rejects

(* Noting the content of a manifest changes nothing else of a revision.    *)
LEMMA RootedRevision ==
    ASSUME NEW r \in Revision, NEW rooted \in RootKinds
    PROVE  LET f == [r EXCEPT !.rooted = rooted]
           IN  /\ f \in Revision
               /\ f.rid = r.rid /\ f.dep = r.dep
               /\ f.encrypted = r.encrypted /\ f.marker = r.marker
BY Mode DEF Revision

-----------------------------------------------------------------------------
LEMMA TypeInit == Init => TypeOK
<1> SUFFICES ASSUME Init PROVE TypeOK
    OBVIOUS
<1>1. revisions \in Seq(Revision)
    BY DEF Init
<1>2. 0 \in 0..(MaxInside + 2) /\ 0 \in 0..MaxDeclared
    BY Bounds
<1> QED BY <1>1, <1>2 DEF Init, TypeOK

LEMMA TypeNext == TypeOK /\ [Next]_vars => TypeOK'
<1> SUFFICES ASSUME TypeOK, [Next]_vars PROVE TypeOK'
    OBVIOUS
<1> USE DEF TypeOK
<1>1. CASE StartRevision
    <2>1. PICK s \in Start :
            /\ StartIsValid(s)
            /\ started' = started \cup {s.rid}
            /\ current' = [rid |-> s.rid, dep |-> s.dep, ctx |-> s.ctx,
                           role |-> s.role, encrypted |-> s.encrypted,
                           marker |-> FALSE, rooted |-> FALSE]
        BY <1>1 DEF StartRevision
    <2>2. s.encrypted \in BOOLEAN /\ s.ctx \in Contexts /\ s.role \in Roles
          /\ s.rid \in Rids /\ s.dep \in Rids \cup {Zero}
        BY <2>1 DEF Start, StartIsValid
    <2>3. current' \in Revision /\ started' \subseteq Rids
        BY <2>1, <2>2 DEF Revision
    <2>4. 1 \in 0..(MaxInside + 2)
        BY Bounds
    <2> QED BY <1>1, <2>3, <2>4 DEF StartRevision
<1>2. CASE DeclareRole
    <2>1. PICK pair \in Pairs, rid \in started :
            assigned' = [assigned EXCEPT ![pair] = rid]
        BY <1>2 DEF DeclareRole
    <2>2. declared' \in 0..MaxDeclared
        BY <1>2, Bounds DEF DeclareRole
    <2>3. assigned' \in [Pairs -> Rids \cup {Zero}]
        BY <2>1
    <2> QED BY <1>2, <2>2, <2>3 DEF DeclareRole
<1>3. CASE ReadMarker
    <2>1. current' \in Revision
        BY <1>3 DEF ReadMarker, Revision
    <2> QED BY <1>3, <2>1, Bounds DEF ReadMarker
<1>4. CASE ReadContent
    BY <1>4, Bounds DEF ReadContent
<1>5. CASE EndRevision
    <2>1. PICK rooted \in RootKinds :
            revisions' = Append(revisions, [current EXCEPT !.rooted = rooted])
        BY <1>5 DEF EndRevision
    <2>2. current \in Revision
        BY <1>5 DEF EndRevision
    <2>3. [current EXCEPT !.rooted = rooted] \in Revision
        BY <2>1, <2>2, RootedRevision
    <2>4. revisions' \in Seq(Revision)
        BY <2>1, <2>3
    <2>5. pos' \in 0..(MaxInside + 2)
        BY <1>5, Bounds DEF EndRevision
    <2>6. inside' = FALSE /\ UNCHANGED <<pc, started, assigned, declared>>
        BY <1>5 DEF EndRevision
    <2> QED BY <2>4, <2>5, <2>6
<1>6. CASE Passes
    BY <1>6, PassEffect
<1>7. CASE UNCHANGED vars
    BY <1>7 DEF vars
<1> QED BY <1>1, <1>2, <1>3, <1>4, <1>5, <1>6, <1>7, NextCases

(* The type invariant holds in every reachable state.                      *)
THEOREM TypeCorrect == Spec => []TypeOK
BY TypeInit, TypeNext, PTL DEF Spec

-----------------------------------------------------------------------------
(* The started revisions are those of the list and the current one.        *)
Known(rid) == \E i \in 1..Len(revisions) : revisions[i].rid = rid

StartedInv ==
    /\ \A rid \in started : Known(rid) \/ (inside /\ rid = current.rid)
    /\ \A i \in 1..Len(revisions) : revisions[i].rid \in started
    /\ inside => /\ current.rid \in started
                 /\ ~Known(current.rid)
                 /\ current.dep # Zero => Known(current.dep)

RInv == TypeOK /\ StartedInv /\ DependenciesPrecede /\ AssignmentsResolve

(* What the end of a manifest does to the list.                            *)
LEMMA EndEffect ==
    ASSUME TypeOK, EndRevision
    PROVE  /\ inside /\ inside' = FALSE
           /\ Len(revisions') = Len(revisions) + 1
           /\ \A i \in 1..Len(revisions) : revisions'[i] = revisions[i]
           /\ revisions'[Len(revisions) + 1].rid = current.rid
           /\ revisions'[Len(revisions) + 1].dep = current.dep
           /\ revisions'[Len(revisions) + 1].encrypted = current.encrypted
           /\ revisions'[Len(revisions) + 1].marker = current.marker
           /\ UNCHANGED <<started, assigned>>
<1>1. PICK rooted \in RootKinds :
        revisions' = Append(revisions, [current EXCEPT !.rooted = rooted])
    BY DEF EndRevision
<1>2. current \in Revision /\ revisions \in Seq(Revision)
    BY DEF TypeOK, EndRevision
<1>3. /\ [current EXCEPT !.rooted = rooted] \in Revision
      /\ [current EXCEPT !.rooted = rooted].rid = current.rid
      /\ [current EXCEPT !.rooted = rooted].dep = current.dep
      /\ [current EXCEPT !.rooted = rooted].encrypted = current.encrypted
      /\ [current EXCEPT !.rooted = rooted].marker = current.marker
    BY <1>1, <1>2, RootedRevision
<1> QED BY <1>1, <1>2, <1>3 DEF EndRevision

LEMMA RInvNext == RInv /\ [Next]_vars => RInv'
<1> SUFFICES ASSUME RInv, [Next]_vars PROVE RInv'
    OBVIOUS
<1> USE DEF RInv
<1>t. TypeOK'
    BY TypeNext
<1>1. CASE StartRevision
    <2>1. PICK s \in Start :
            /\ StartIsValid(s)
            /\ started' = started \cup {s.rid}
            /\ current' = [rid |-> s.rid, dep |-> s.dep, ctx |-> s.ctx,
                           role |-> s.role, encrypted |-> s.encrypted,
                           marker |-> FALSE, rooted |-> FALSE]
        BY <1>1 DEF StartRevision
    <2>2. ~inside /\ inside' /\ UNCHANGED <<revisions, assigned>>
        BY <1>1 DEF StartRevision
    <2>3. current'.rid = s.rid /\ current'.dep = s.dep
        BY <2>1
    <2>4. ~Known(s.rid) /\ (s.dep # Zero => Known(s.dep))
        BY <2>1, <2>2 DEF StartedInv, StartIsValid, Known
    <2>5. StartedInv'
        BY <2>1, <2>2, <2>3, <2>4 DEF StartedInv, Known
    <2> QED BY <1>t, <2>2, <2>5 DEF DependenciesPrecede, AssignmentsResolve
<1>2. CASE DeclareRole
    <2>1. PICK pair \in Pairs, rid \in started :
            assigned' = [assigned EXCEPT ![pair] = rid]
        BY <1>2 DEF DeclareRole
    <2>2. ~inside /\ UNCHANGED <<started, revisions, inside, current>>
        BY <1>2 DEF DeclareRole
    <2>3. Known(rid)
        BY <2>1, <2>2 DEF StartedInv
    <2>4. AssignmentsResolve'
        BY <2>1, <2>2, <2>3 DEF AssignmentsResolve, Known, TypeOK
    <2> QED BY <1>t, <2>2, <2>4 DEF StartedInv, Known, DependenciesPrecede
<1>3. CASE ReadMarker
    <2>1. current'.rid = current.rid /\ current'.dep = current.dep
        BY <1>3 DEF ReadMarker, TypeOK, Revision
    <2> QED BY <1>3, <1>t, <2>1
            DEF ReadMarker, StartedInv, Known, DependenciesPrecede, AssignmentsResolve
<1>4. CASE ReadContent
    BY <1>4, <1>t DEF ReadContent, StartedInv, Known, DependenciesPrecede,
                      AssignmentsResolve
<1>5. CASE EndRevision
    <2> DEFINE n == Len(revisions)
    <2>1. n \in Nat
        BY DEF TypeOK
    <2>2. \A rid : Known(rid)' <=> (Known(rid) \/ rid = current.rid)
        BY <1>5, <2>1, EndEffect DEF Known
    <2>3. StartedInv'
        BY <1>5, <2>1, <2>2, EndEffect DEF StartedInv, Known
    <2>4. DependenciesPrecede'
        <3>1. ASSUME NEW i \in 1..n+1
              PROVE  /\ revisions'[i].dep # Zero =>
                          \E j \in 1..i-1 : revisions'[j].rid = revisions'[i].dep
                     /\ \A j \in 1..i-1 : revisions'[j].rid # revisions'[i].rid
            <4>1. CASE i \in 1..n
                BY <1>5, <2>1, <4>1, EndEffect DEF DependenciesPrecede
            <4>2. CASE i = n + 1
                BY <1>5, <2>1, <4>2, EndEffect DEF StartedInv, Known
            <4> QED BY <2>1, <4>1, <4>2
        <3> QED BY <1>5, <3>1, EndEffect DEF DependenciesPrecede
    <2>5. AssignmentsResolve'
        BY <1>5, <2>1, EndEffect DEF AssignmentsResolve
    <2> QED BY <1>t, <2>3, <2>4, <2>5
<1>6. CASE Passes
    BY <1>6, <1>t, PassEffect DEF StartedInv, Known, DependenciesPrecede,
                                  AssignmentsResolve
<1>7. CASE UNCHANGED vars
    BY <1>7, <1>t DEF vars, StartedInv, Known, DependenciesPrecede,
                      AssignmentsResolve
<1> QED BY <1>1, <1>2, <1>3, <1>4, <1>5, <1>6, <1>7, NextCases

LEMMA RInvInit == Init => RInv
BY TypeInit DEF Init, RInv, StartedInv, DependenciesPrecede, AssignmentsResolve

(* The dependencies of the revisions form a forest in list order.          *)
THEOREM DependencyForest == Spec => []DependenciesPrecede
BY RInvInit, RInvNext, PTL DEF Spec, RInv

(* Every role assignment names a revision of the list.                     *)
THEOREM NoDanglingAssignment == Spec => []AssignmentsResolve
BY RInvInit, RInvNext, PTL DEF Spec, RInv

-----------------------------------------------------------------------------
(* An encrypted manifest past its second node has its marker.              *)
MarkerInv ==
    /\ inside => pos \in Nat \ {0}
    /\ inside /\ current.encrypted /\ pos > 1 => current.marker
    /\ \A i \in 1..Len(revisions) : revisions[i].encrypted => revisions[i].marker
    /\ pc = "done" => ~inside /\ ~(Strict /\ MixedEncryption)

(* Encrypted revisions carry the marker; strict parsing never returns a    *)
(* list in which some revisions carry it and some do not.                  *)
THEOREM UniformEncryption == Spec => []EncryptionIsUniform
<1>1. Init => TypeOK /\ MarkerInv
    BY TypeInit DEF Init, MarkerInv
<1>2. TypeOK /\ MarkerInv /\ [Next]_vars => (TypeOK /\ MarkerInv)'
    <2> SUFFICES ASSUME TypeOK, MarkerInv, [Next]_vars PROVE MarkerInv'
        BY TypeNext
    <2> USE DEF MarkerInv
    <2>1. CASE StartRevision
        <3>1. pc' = pc /\ pc # "done" /\ pos' = 1 /\ revisions' = revisions
            BY <2>1 DEF StartRevision
        <3> QED BY <3>1
    <2>2. CASE DeclareRole
        BY <2>2 DEF DeclareRole
    <2>3. CASE ReadMarker
        <3>1. inside /\ current \in Revision /\ pos' = pos + 1
              /\ revisions' = revisions /\ pc' = pc /\ pc # "done"
            BY <2>3 DEF ReadMarker, TypeOK
        <3>2. current'.marker = TRUE
            BY <2>3, <3>1 DEF ReadMarker, Revision
        <3> QED BY <3>1, <3>2
    <2>4. CASE ReadContent
        BY <2>4 DEF ReadContent, MarkerMissing
    <2>5. CASE EndRevision
        <3>1. current.encrypted => current.marker
            BY <2>5 DEF EndRevision, MarkerMissing
        <3>2. \A i \in 1..Len(revisions) + 1 :
                 revisions'[i].encrypted => revisions'[i].marker
            <4>1. Len(revisions) \in Nat
                BY DEF TypeOK
            <4>2. \A i \in 1..Len(revisions) : revisions'[i] = revisions[i]
                BY <2>5, EndEffect
            <4>3. /\ revisions'[Len(revisions) + 1].encrypted = current.encrypted
                  /\ revisions'[Len(revisions) + 1].marker = current.marker
                BY <2>5, EndEffect
            <4> QED BY <3>1, <4>1, <4>2, <4>3
        <3>3. pc' = pc /\ pc # "done" /\ inside' = FALSE
            BY <2>5 DEF EndRevision
        <3> QED BY <2>5, <3>2, <3>3, EndEffect
    <2>6. CASE Passes
        BY <2>6, PassEffect DEF MixedEncryption, Marked
    <2>7. CASE UNCHANGED vars
        BY <2>7 DEF vars, MixedEncryption, Marked
    <2> QED BY <2>1, <2>2, <2>3, <2>4, <2>5, <2>6, <2>7, NextCases
<1>3. MarkerInv => EncryptionIsUniform
    BY DEF MarkerInv, EncryptionIsUniform, MixedEncryption
<1> QED BY <1>1, <1>2, <1>3, PTL DEF Spec

-----------------------------------------------------------------------------
(* Numbers.                                                                *)

(* A set of numbers that is not empty has a least element: the intervals   *)
(* up to its elements are finite sets, and inclusion of those is           *)
(* well-founded.                                                           *)
LEMMA LeastNatural ==
    ASSUME NEW T, T \subseteq Nat, T # {}
    PROVE  \E x \in T : \A y \in T : x <= y
<1> DEFINE F == {0..n : n \in T}
<1>1. \A n \in Nat : 0..n \in FiniteSubsetsOf(Nat)
  <2> TAKE n \in Nat
  <2>1. IsFiniteSet(0..n)
    BY FS_Interval
  <2> QED
    BY <2>1 DEF FiniteSubsetsOf
<1>2. F \subseteq FiniteSubsetsOf(Nat) /\ F # {}
  BY <1>1
<1>3. \E x \in F : \A y \in F : ~ (<<y, x>> \in StrictSubsetOrdering(Nat))
  <2> HIDE DEF F
  <2> QED
    BY <1>2, FS_StrictSubsetOrderingWellFounded, WFMin
<1>4. PICK n \in T : \A m \in T : ~ (<<0..m, 0..n>> \in StrictSubsetOrdering(Nat))
  BY <1>3
<1>5. \A m \in T : n <= m
  <2> SUFFICES ASSUME NEW m \in T, m < n PROVE FALSE
    OBVIOUS
  <2>1. n \in 0..n /\ n \notin 0..m
    OBVIOUS
  <2>2. 0..m \subseteq 0..n /\ 0..m # 0..n /\ 0..m \subseteq Nat /\ 0..n \subseteq Nat
    BY <2>1
  <2> QED
    BY <1>4, <2>2 DEF StrictSubsetOrdering
<1> QED
  BY <1>5

LEMMA MaxOf ==
    ASSUME NEW S, S \subseteq Nat, S # {}, NEW b \in Nat, \A x \in S : x <= b
    PROVE  Max(S) \in S /\ \A x \in S : x <= Max(S)
<1> DEFINE U == {n \in Nat : \A x \in S : x <= n}
<1>1. PICK u \in U : \A n \in U : u <= n
  BY LeastNatural
<1>2. u \in S
  <2> SUFFICES ASSUME u \notin S PROVE FALSE
    OBVIOUS
  <2>1. \A x \in S : x <= u - 1
    OBVIOUS
  <2>2. u - 1 \in Nat
    <3>1. PICK x \in S : TRUE
      OBVIOUS
    <3>2. x \in Nat /\ x <= u - 1 /\ u \in Nat
      BY <2>1
    <3> QED
      BY <3>2
  <2>3. u - 1 \in U
    BY <2>1, <2>2
  <2> QED
    BY <1>1, <2>3
<1>3. \E x \in S : \A y \in S : x >= y
  BY <1>2
<1>4. Max(S) \in S /\ \A y \in S : Max(S) >= y
  BY <1>3 DEF Max
<1> QED
  BY <1>4

LEMMA MaxIs ==
    ASSUME NEW S, S \subseteq Nat, NEW m \in S, \A x \in S : x <= m
    PROVE  Max(S) = m
<1>1. Max(S) \in S /\ \A x \in S : x <= Max(S)
  BY MaxOf
<1>2. Max(S) <= m /\ m <= Max(S) /\ m \in Nat /\ Max(S) \in Nat
  BY <1>1
<1> QED
  BY <1>2

-----------------------------------------------------------------------------
(* The chain of a revision.  Within as many steps as there are revisions   *)
(* it is closed under dependency: after n steps only revisions n or more   *)
(* before the first one can lack theirs.                                   *)

ListInv == TypeOK /\ DependenciesPrecede

LEMMA DependencyIsEarlier ==
    ASSUME ListInv, NEW j \in 1..Last, NEW k \in DependencyOf(j)
    PROVE  k \in 1..(j - 1) /\ revisions[j].dep = revisions[k].rid
<1>1. revisions \in Seq(Revision) /\ k \in 1..Last /\ revisions[k].rid = revisions[j].dep
      /\ Last = Len(revisions) /\ Last \in Nat
  BY DEF ListInv, TypeOK, DependencyOf, Last
<1>2. revisions[k] \in Revision
  BY <1>1
<1>3. revisions[j].dep # Zero
  BY <1>1, <1>2, ZeroIsNoRid DEF Revision
<1>4. PICK m \in 1..(j - 1) : revisions[m].rid = revisions[j].dep
  BY <1>1, <1>3 DEF ListInv, DependenciesPrecede
<1>5. m \in 1..Last
  BY <1>1
<1>6. CASE k < m
  <2>1. k \in 1..(m - 1)
    BY <1>1, <1>6
  <2> QED
    BY <1>1, <1>4, <1>5, <2>1 DEF ListInv, DependenciesPrecede
<1>7. CASE m < k
  <2>1. m \in 1..(k - 1)
    BY <1>1, <1>7
  <2> QED
    BY <1>1, <1>4, <1>5, <2>1 DEF ListInv, DependenciesPrecede
<1> QED
  BY <1>1, <1>4, <1>6, <1>7

LEMMA EarlierIsDependency ==
    ASSUME ListInv, NEW j \in 1..Last, revisions[j].dep # Zero
    PROVE  \E k \in 1..(j - 1) : k \in DependencyOf(j)
<1>1. Last = Len(revisions) /\ Last \in Nat
  BY DEF ListInv, TypeOK, Last
<1>2. PICK k \in 1..(j - 1) : revisions[k].rid = revisions[j].dep
  BY <1>1 DEF ListInv, DependenciesPrecede
<1>3. k \in 1..Last
  BY <1>1
<1> QED
  BY <1>2, <1>3 DEF DependencyOf

LEMMA StepsOfChain ==
    ASSUME ListInv, NEW i \in 1..Last
    PROVE  \E f : /\ Chain(i) = f[Last]
                  /\ f[0] = {i}
                  /\ \A n \in 1..Last :
                       f[n] = f[n - 1] \cup UNION {DependencyOf(j) : j \in f[n - 1]}
<1> DEFINE Is(g, n) == g = [m \in 0..n |->
                         IF m = 0 THEN {i}
                         ELSE g[m - 1] \cup UNION {DependencyOf(j) : j \in g[m - 1]}]
           Bad == {n \in Nat : ~ \E g : Is(g, n)}
<1>1. \A n \in Nat : \E g : Is(g, n)
  <2> SUFFICES ASSUME Bad # {} PROVE FALSE
    OBVIOUS
  <2>1. PICK n \in Bad : \A m \in Bad : n <= m
    <3>1. Bad \subseteq Nat
      OBVIOUS
    <3> HIDE DEF Bad
    <3> QED
      BY <3>1, LeastNatural
  <2>2. n # 0
    <3> SUFFICES ASSUME n = 0 PROVE FALSE
      OBVIOUS
    <3> DEFINE h == [m \in 0..0 |-> {i}]
    <3>1. h = [m \in 0..0 |-> IF m = 0 THEN {i}
                 ELSE h[m - 1] \cup UNION {DependencyOf(j) : j \in h[m - 1]}]
      OBVIOUS
    <3> HIDE DEF h
    <3>2. Is(h, n)
      BY <3>1
    <3> HIDE DEF Is
    <3> QED
      BY <3>2
  <2>3. n - 1 \in Nat /\ n - 1 \notin Bad
    <3>1. n \in Nat /\ n - 1 \in Nat /\ n - 1 < n
      BY <2>2
    <3> HIDE DEF Bad
    <3> QED
      BY <2>1, <3>1
  <2>4. PICK g : Is(g, n - 1)
    BY <2>3
  <2> DEFINE h == [m \in 0..n |-> IF m < n THEN g[m]
                    ELSE g[n - 1] \cup UNION {DependencyOf(j) : j \in g[n - 1]}]
  <2>5. ASSUME NEW m \in 0..n
        PROVE  h[m] = IF m = 0 THEN {i}
                      ELSE h[m - 1] \cup UNION {DependencyOf(j) : j \in h[m - 1]}
    <3>1. CASE m = n
      <4>1. h[m - 1] = g[n - 1]
        BY <2>3, <3>1
      <4>2. h[m] = g[n - 1] \cup UNION {DependencyOf(j) : j \in g[n - 1]}
        BY <3>1
      <4> HIDE DEF h
      <4> QED
        BY <2>2, <3>1, <4>1, <4>2
    <3>2. CASE m # n
      <4>1. m \in 0..(n - 1) /\ h[m] = g[m]
        BY <3>2
      <4>2. m # 0 => h[m - 1] = g[m - 1]
        BY <4>1
      <4>3. g[m] = IF m = 0 THEN {i}
                   ELSE g[m - 1] \cup UNION {DependencyOf(j) : j \in g[m - 1]}
        BY <2>4, <4>1
      <4> HIDE DEF h
      <4> QED
        BY <4>1, <4>2, <4>3
    <3> QED
      BY <3>1, <3>2
  <2>6. h = [m \in 0..n |-> h[m]]
    OBVIOUS
  <2> HIDE DEF h
  <2>7. Is(h, n)
    BY <2>5, <2>6
  <2> HIDE DEF Is
  <2> QED
    BY <2>7
<1> DEFINE f == CHOOSE g : Is(g, Last)
<1>2. Chain(i) = f[Last]
  BY DEF Chain
<1>3. Last \in Nat
  BY DEF ListInv, TypeOK, Last
<1>4. Is(f, Last)
  <2> HIDE DEF Is
  <2> QED
    BY <1>1, <1>3
<1> HIDE DEF f
<1>5. \A m \in 0..Last : f[m] = IF m = 0 THEN {i}
                   ELSE f[m - 1] \cup UNION {DependencyOf(j) : j \in f[m - 1]}
  BY <1>4
<1>6. f[0] = {i}
  <2>1. 0 \in 0..Last
    BY <1>3
  <2> QED
    BY <1>5, <2>1
<1>7. \A n \in 1..Last : f[n] = f[n - 1] \cup UNION {DependencyOf(j) : j \in f[n - 1]}
  <2>1. \A n \in 1..Last : n \in 0..Last /\ n # 0
    BY <1>3
  <2> QED
    BY <1>5, <2>1
<1> QED
  BY <1>2, <1>6, <1>7

LEMMA ChainIs ==
    ASSUME ListInv, NEW i \in 1..Last
    PROVE  /\ i \in Chain(i) /\ Chain(i) \subseteq 1..i
           /\ \A j \in Chain(i) : DependencyOf(j) \subseteq Chain(i)
           /\ \A j \in Chain(i) : j = i \/ \E k \in Chain(i) : j \in DependencyOf(k)
<1> DEFINE L == Last
<1>1. PICK f : /\ Chain(i) = f[L]
               /\ f[0] = {i}
               /\ \A n \in 1..L :
                    f[n] = f[n - 1] \cup UNION {DependencyOf(j) : j \in f[n - 1]}
  BY StepsOfChain
<1>2. L \in Nat /\ i \in 1..L
  BY DEF ListInv, TypeOK, Last
<1> HIDE DEF L
<1> DEFINE Good(n) ==
             /\ i \in f[n] /\ f[n] \subseteq 1..i
             /\ \A j \in f[n] : j + n > i => DependencyOf(j) \subseteq f[n]
             /\ \A j \in f[n] : j = i \/ \E k \in f[n] : j \in DependencyOf(k)
           Bad == {n \in 0..L : ~Good(n)}
<1>3. Good(0)
  BY <1>1, <1>2
<1>4. ASSUME NEW n \in 1..L, Good(n - 1) PROVE Good(n)
  <2> DEFINE A == f[n - 1]
             B == f[n]
  <2>1. B = A \cup UNION {DependencyOf(j) : j \in A} /\ n - 1 \in Nat /\ n \in Nat
    BY <1>1, <1>2
  <2>2. /\ i \in A /\ A \subseteq 1..i
        /\ \A j \in A : j + (n - 1) > i => DependencyOf(j) \subseteq A
        /\ \A j \in A : j = i \/ \E k \in A : j \in DependencyOf(k)
    BY <1>4
  <2> HIDE DEF A, B
  <2>3. \A j \in A : \A k \in DependencyOf(j) : k \in 1..i /\ k < j
    <3> TAKE j \in A
    <3> TAKE k \in DependencyOf(j)
    <3>1. j \in 1..i /\ j \in 1..Last
      BY <1>2, <2>2 DEF L
    <3>2. k \in 1..(j - 1)
      BY <3>1, DependencyIsEarlier
    <3> QED
      BY <1>2, <3>1, <3>2
  <2>4. i \in B /\ B \subseteq 1..i
    BY <2>1, <2>2, <2>3
  <2>5. ASSUME NEW j \in B, j + n > i PROVE DependencyOf(j) \subseteq B
    <3>1. CASE j \in A
      BY <2>1, <3>1
    <3>2. CASE j \notin A
      <4>1. PICK k \in A : j \in DependencyOf(k)
        BY <2>1, <3>2
      <4>2. k \in Nat /\ j \in Nat /\ j < k /\ i \in Nat
        BY <1>2, <2>2, <2>3, <4>1
      <4>3. k + (n - 1) > i
        BY <2>1, <2>5, <4>2
      <4>4. DependencyOf(k) \subseteq A
        BY <2>2, <4>3
      <4> QED
        BY <3>2, <4>1, <4>4
    <3> QED
      BY <3>1, <3>2
  <2>6. ASSUME NEW j \in B, j # i PROVE \E k \in B : j \in DependencyOf(k)
    <3>1. \E k \in A : j \in DependencyOf(k)
      BY <2>1, <2>2, <2>6
    <3> QED
      BY <2>1, <3>1
  <2> QED
    BY <2>4, <2>5, <2>6 DEF B
<1> HIDE DEF Good
<1>5. Bad = {}
  <2> SUFFICES ASSUME Bad # {} PROVE FALSE
    OBVIOUS
  <2>1. PICK n \in Bad : \A m \in Bad : n <= m
    <3>1. Bad \subseteq Nat
      BY <1>2
    <3> HIDE DEF Bad
    <3> QED
      BY <3>1, LeastNatural
  <2>2. n \in 1..L
    <3>1. n # 0 /\ n \in 0..L
      BY <1>3, <2>1
    <3> QED
      BY <1>2, <3>1
  <2>3. n - 1 \in 0..L /\ n - 1 < n
    BY <1>2, <2>2
  <2>4. Good(n - 1)
    <3> SUFFICES ASSUME ~Good(n - 1) PROVE FALSE
      OBVIOUS
    <3>1. n - 1 \in Bad
      BY <2>3
    <3> HIDE DEF Bad
    <3> QED
      BY <2>1, <2>2, <2>3, <3>1, <1>2
  <2> QED
    BY <1>4, <2>1, <2>2, <2>4
<1>6. Good(L)
  <2>1. L \in 0..L
    BY <1>2
  <2> QED
    BY <1>5, <2>1
<1>7. \A j \in f[L] : j \in Nat /\ j + L > i
  <2>1. \A j \in f[L] : j \in 1..i
    BY <1>6 DEF Good
  <2> QED
    BY <1>2, <2>1
<1> QED
  BY <1>1, <1>6, <1>7 DEF Good

(* A revision reached by steps from each revision to the one before it is  *)
(* in the chain.                                                           *)
LEMMA LinearRunInChain ==
    ASSUME ListInv, NEW i \in 1..Last, NEW d \in LinearRun(i)
    PROVE  d \in 1..Last /\ i \in Chain(d)
<1>1. Last \in Nat /\ d \in i..Last /\ i \in Nat \ {0}
      /\ \A k \in i+1..d : revisions[k].dep = revisions[k-1].rid
  BY DEF ListInv, TypeOK, Last, LinearRun
<1>2. d \in 1..Last
  BY <1>1
<1> DEFINE C == Chain(d)
<1>3. d \in C /\ C \subseteq 1..d /\ \A j \in C : DependencyOf(j) \subseteq C
  BY <1>2, ChainIs
<1> HIDE DEF C
<1> DEFINE S == {k \in i..d : k \in C}
<1>4. PICK m \in S : \A k \in S : m <= k
  <2>1. S \subseteq Nat /\ d \in S
    BY <1>1, <1>3
  <2> HIDE DEF S
  <2> QED
    BY <2>1, LeastNatural
<1>5. m = i
  <2> SUFFICES ASSUME m # i PROVE FALSE
    OBVIOUS
  <2>1. m \in i+1..d /\ m - 1 \in i..d /\ m - 1 \in 1..Last /\ m - 1 < m /\ m \in C
    BY <1>1, <1>4
  <2>2. m - 1 \in DependencyOf(m)
    BY <1>1, <2>1 DEF DependencyOf
  <2>3. m - 1 \in S
    BY <1>3, <2>1, <2>2
  <2> HIDE DEF S
  <2>4. m <= m - 1
    BY <1>4, <2>3
  <2> QED
    BY <1>1, <2>1, <2>4
<1> QED
  BY <1>2, <1>4, <1>5 DEF C

-----------------------------------------------------------------------------
(* The selection.  Only finitely many roles are ever assigned, so there is *)
(* a highest one.                                                          *)

Bounded == \E b \in Nat : \A p \in Pairs : assigned[p] # Zero => p[2] <= b
SelectInv == RInv /\ Bounded

LEMMA SelectStart == Init => SelectInv
<1>1. Init => Bounded
  BY DEF Init, Bounded
<1> QED
  BY <1>1, RInvInit DEF SelectInv

LEMMA SelectStep == SelectInv /\ [Next]_vars => SelectInv'
<1> SUFFICES ASSUME SelectInv, [Next]_vars PROVE Bounded'
  BY RInvNext DEF SelectInv
<1>1. PICK b \in Nat : \A p \in Pairs : assigned[p] # Zero => p[2] <= b
  BY DEF SelectInv, Bounded
<1>2. CASE DeclareRole
  <2>1. PICK pair \in Pairs, rid \in started : assigned' = [assigned EXCEPT ![pair] = rid]
    BY <1>2 DEF DeclareRole
  <2>2. pair[2] \in Nat /\ \A p \in Pairs : p[2] \in Nat
    BY <2>1, Role DEF Pairs
  <2> DEFINE c == IF pair[2] <= b THEN b ELSE pair[2]
  <2>3. c \in Nat /\ b <= c /\ pair[2] <= c
    BY <2>2
  <2> HIDE DEF c
  <2>4. ASSUME NEW p \in Pairs, assigned'[p] # Zero PROVE p[2] <= c
    <3>1. CASE p = pair
      BY <2>3, <3>1
    <3>2. CASE p # pair
      <4>1. assigned'[p] = assigned[p]
        BY <2>1, <3>2 DEF SelectInv, RInv, TypeOK
      <4>2. p[2] <= b
        BY <1>1, <2>4, <4>1
      <4> QED
        BY <2>2, <2>3, <4>2
    <3> QED
      BY <3>1, <3>2
  <2> QED
    BY <2>3, <2>4 DEF Bounded
<1>3. CASE assigned' = assigned
  BY <1>1, <1>3 DEF Bounded
<1>4. assigned' = assigned \/ DeclareRole
  BY NextCases, PassEffect DEF StartRevision, ReadMarker, ReadContent, EndRevision, vars
<1> QED
  BY <1>2, <1>3, <1>4

LEMMA HighestIsCandidate ==
    ASSUME SelectInv, CandidateRoles # {}
    PROVE  /\ HighestRole \in CandidateRoles
           /\ Assigned(HighestRole) \in 1..Last
           /\ revisions[Assigned(HighestRole)].rid = assigned[<<Default, HighestRole>>]
<1>1. PICK b \in Nat : \A p \in Pairs : assigned[p] # Zero => p[2] <= b
  BY DEF SelectInv, Bounded
<1>2. CandidateRoles \subseteq Nat /\ \A role \in CandidateRoles : role <= b /\ <<Default, role>> \in Pairs
  <2>1. CandidateRoles \subseteq Roles
    BY DEF CandidateRoles
  <2>2. \A role \in CandidateRoles : <<Default, role>> \in Pairs /\ assigned[<<Default, role>>] # Zero
    BY <2>1, Context DEF Pairs, CandidateRoles
  <2> QED
    BY <1>1, <2>1, <2>2, Role
<1>3. HighestRole \in CandidateRoles
  BY <1>2, MaxOf DEF HighestRole
<1>4. assigned[<<Default, HighestRole>>] # Zero /\ <<Default, HighestRole>> \in Pairs
  BY <1>2, <1>3 DEF CandidateRoles
<1>5. \E i \in 1..Last : revisions[i].rid = assigned[<<Default, HighestRole>>]
  BY <1>4 DEF SelectInv, RInv, AssignmentsResolve, Last
<1> QED
  BY <1>3, <1>5 DEF Assigned, IndexOf

LEMMA DefaultIs ==
    ASSUME SelectInv, Last > 0
    PROVE  /\ DefaultRevision \in 1..Last
           /\ CandidateRoles # {} =>
                LET i == Assigned(HighestRole) IN
                /\ DefaultRevision \in LinearRun(i)
                /\ i # DefaultRevision => Matches(DefaultRevision, HighestRole)
<1>1. Last \in Nat
  BY DEF SelectInv, RInv, TypeOK, Last
<1>2. CASE CandidateRoles = {}
  BY <1>1, <1>2 DEF DefaultRevision
<1>3. CASE CandidateRoles # {}
  <2> DEFINE i == Assigned(HighestRole)
             role == HighestRole
             M == {j \in LinearRun(i) : Matches(j, role)}
  <2>1. i \in 1..Last
    BY <1>3, HighestIsCandidate
  <2>2. DefaultRevision = IF Matches(i, role) THEN i ELSE IF M = {} THEN i ELSE Max(M)
    BY <1>3 DEF DefaultRevision, Advance
  <2> HIDE DEF i, role
  <2>3. i \in LinearRun(i) /\ LinearRun(i) \subseteq i..Last
    BY <1>1, <2>1 DEF LinearRun
  <2>4. M # {} => Max(M) \in M
    <3>1. M \subseteq Nat /\ \A x \in M : x <= Last
      BY <1>1, <2>1, <2>3
    <3> HIDE DEF M
    <3> QED
      BY <1>1, <3>1, MaxOf
  <2>5. DefaultRevision \in LinearRun(i) /\ (i # DefaultRevision => Matches(DefaultRevision, role))
    <3>1. CASE Matches(i, role) \/ M = {}
      BY <2>2, <2>3, <3>1
    <3>2. CASE ~Matches(i, role) /\ M # {}
      BY <2>2, <2>4, <3>2
    <3> QED
      BY <3>1, <3>2
  <2>6. DefaultRevision \in 1..Last
    BY <1>1, <2>1, <2>3, <2>5
  <2> QED
    BY <2>5, <2>6 DEF i, role
<1> QED
  BY <1>2, <1>3

LEMMA SelectFacts ==
    ASSUME SelectInv
    PROVE  SelectionReplaysAssigned /\ ChainIsComplete
<1>1. ListInv /\ Last \in Nat
  BY DEF SelectInv, RInv, ListInv, TypeOK, Last
<1>2. ASSUME CandidateRoles # {}
      PROVE  LET i == Assigned(HighestRole)
             IN  /\ i \in Chain(DefaultRevision)
                 /\ i # DefaultRevision => Matches(DefaultRevision, HighestRole)
  <2>1. Assigned(HighestRole) \in 1..Last
    BY <1>2, HighestIsCandidate
  <2>2. Last > 0
    BY <1>1, <2>1
  <2>3. /\ DefaultRevision \in LinearRun(Assigned(HighestRole))
        /\ Assigned(HighestRole) # DefaultRevision => Matches(DefaultRevision, HighestRole)
    BY <1>2, <2>2, DefaultIs
  <2>4. Assigned(HighestRole) \in Chain(DefaultRevision)
    BY <1>1, <2>1, <2>3, LinearRunInChain
  <2> QED
    BY <2>3, <2>4
<1>3. ASSUME Last > 0 PROVE ChainIsComplete
  <2> DEFINE d == DefaultRevision
             C == Chain(d)
  <2>1. d \in 1..Last
    BY <1>3, DefaultIs
  <2>2. /\ d \in C /\ C \subseteq 1..d
        /\ \A j \in C : DependencyOf(j) \subseteq C
        /\ \A j \in C : j = d \/ \E k \in C : j \in DependencyOf(k)
    BY <1>1, <2>1, ChainIs
  <2> HIDE DEF C, d
  <2>3. Min(C) \in C /\ \A j \in C : Min(C) <= j
    <3>1. \E m \in C : \A j \in C : m <= j
      <4>1. C \subseteq Nat /\ C # {}
        BY <1>1, <2>1, <2>2
      <4> QED
        BY <4>1, LeastNatural
    <3> QED
      BY <3>1 DEF Min
  <2>4. revisions[Min(C)].dep = Zero
    <3> SUFFICES ASSUME revisions[Min(C)].dep # Zero PROVE FALSE
      OBVIOUS
    <3>1. Min(C) \in 1..Last
      <4>1. PICK m : m = Min(C)
        OBVIOUS
      <4>2. m \in 1..d
        BY <2>2, <2>3, <4>1
      <4>3. m \in 1..Last
        BY <1>1, <2>1, <4>2
      <4> QED
        BY <4>1, <4>3
    <3>2. PICK k \in 1..(Min(C) - 1) : k \in DependencyOf(Min(C))
      BY <1>1, <3>1, EarlierIsDependency
    <3>3. k \in C
      BY <2>2, <2>3, <3>2
    <3>4. Min(C) <= k
      BY <2>3, <3>3
    <3> QED
      BY <3>1, <3>2, <3>4
  <2>5. ASSUME NEW j \in C, j # d
        PROVE  \E k \in C : k > j /\ revisions[k].dep = revisions[j].rid
    <3>1. PICK k \in C : j \in DependencyOf(k)
      BY <2>2, <2>5
    <3>2. k \in 1..Last
      BY <1>1, <2>1, <2>2
    <3>3. j \in 1..(k - 1) /\ revisions[k].dep = revisions[j].rid
      BY <1>1, <3>1, <3>2, DependencyIsEarlier
    <3> QED
      BY <1>1, <3>2, <3>3
  <2> QED
    BY <2>4, <2>5 DEF ChainIsComplete, C, d
<1> QED
  BY <1>2, <1>3 DEF SelectionReplaysAssigned, ChainIsComplete

(* For lists of any length: the default revision replays the revision that *)
(* the highest role of the default context names, or is that revision.     *)
THEOREM SelectionReplays == Spec => []SelectionReplaysAssigned
BY SelectStart, SelectStep, SelectFacts, PTL DEF Spec

(* The chain that is replayed for the default revision starts at one that  *)
(* depends on nothing and has no gap.                                      *)
THEOREM ChainsComplete == Spec => []ChainIsComplete
BY SelectStart, SelectStep, SelectFacts, PTL DEF Spec

-----------------------------------------------------------------------------
(* A list only grows at its end.                                           *)
LEMMA ListGrows ==
    ASSUME TypeOK, [Next]_vars
    PROVE  Last <= Last' /\ \A i \in 1..Last : revisions'[i] = revisions[i]
<1>1. Last = Len(revisions) /\ Last \in Nat /\ Last' = Len(revisions')
  BY DEF TypeOK, Last
<1>2. CASE EndRevision
  BY <1>1, <1>2, EndEffect
<1>3. CASE revisions' = revisions
  BY <1>1, <1>3
<1>4. revisions' = revisions \/ EndRevision
  BY NextCases, PassEffect DEF StartRevision, DeclareRole, ReadMarker, ReadContent, vars
<1> QED
  BY <1>2, <1>3, <1>4

LEMMA HighestResolves ==
    SelectInv /\ CandidateRoles # {} =>
        /\ HighestRole \in CandidateRoles
        /\ Assigned(HighestRole) \in 1..Last
        /\ revisions[Assigned(HighestRole)].rid = assigned[<<Default, HighestRole>>]
BY HighestIsCandidate

LEMMA HighestResolvesNext == (
    SelectInv /\ CandidateRoles # {} =>
        /\ HighestRole \in CandidateRoles
        /\ Assigned(HighestRole) \in 1..Last
        /\ revisions[Assigned(HighestRole)].rid = assigned[<<Default, HighestRole>>])'
BY HighestResolves, PTL

LEMMA SameSelection ==
    ASSUME SelectInv, SelectInv', [Next]_vars, CandidateRoles # {},
           \A role \in Roles : assigned'[<<Default, role>>] = assigned[<<Default, role>>],
           \A i \in Last+1..Len(revisions') : revisions'[i].ctx # Default
    PROVE  DefaultRevision' = DefaultRevision
<1>0. /\ Last \in Nat /\ Last' \in Nat /\ Last <= Last' /\ Last' = Len(revisions')
      /\ \A i \in 1..Last : revisions'[i] = revisions[i]
  BY ListGrows DEF SelectInv, RInv, TypeOK, Last
<1>1. CandidateRoles' = CandidateRoles
  BY DEF CandidateRoles
<1> DEFINE role == HighestRole
           i    == Assigned(role)
<1>2. role' = role
  BY <1>1 DEF HighestRole
<1>3. role \in CandidateRoles /\ i \in 1..Last /\ revisions[i].rid = assigned[<<Default, role>>]
  BY HighestIsCandidate
<1>4. i' = i
  <2>1. i' \in 1..Last' /\ revisions'[i'].rid = assigned'[<<Default, role>>]
    <3>1. /\ (HighestRole \in CandidateRoles)' /\ (Assigned(HighestRole) \in 1..Last)'
          /\ (revisions[Assigned(HighestRole)].rid = assigned[<<Default, HighestRole>>])'
      <4>1. (CandidateRoles # {})'
        BY <1>1
      <4> QED
        BY <4>1, HighestResolvesNext
    <3> QED
      BY <1>2, <3>1
  <2>2. role \in Roles
    BY <1>3 DEF CandidateRoles
  <2>3. assigned'[<<Default, role>>] = assigned[<<Default, role>>]
    BY <2>2
  <2>4. revisions'[i] = revisions[i] /\ i \in 1..Last'
    BY <1>0, <1>3
  <2>5. \A a \in 1..Last' : \A b \in 1..(a - 1) : revisions'[b].rid # revisions'[a].rid
    BY <1>0 DEF SelectInv, RInv, DependenciesPrecede
  <2> HIDE DEF i, role
  <2>6. PICK a, b : a = i /\ b = i'
    OBVIOUS
  <2>7. revisions'[a].rid = revisions'[b].rid /\ a \in 1..Last' /\ b \in 1..Last'
    BY <1>3, <2>1, <2>3, <2>4, <2>6
  <2>8. a = b
    <3>1. CASE a < b
      <4>1. a \in 1..(b - 1)
        BY <1>0, <2>7, <3>1
      <4> QED
        BY <2>5, <2>7, <4>1
    <3>2. CASE b < a
      <4>1. b \in 1..(a - 1)
        BY <1>0, <2>7, <3>2
      <4> QED
        BY <2>5, <2>7, <4>1
    <3> QED
      BY <1>0, <2>7, <3>1, <3>2
  <2> QED
    BY <2>6, <2>8
<1>5. PICK I, R : I = i /\ R = role
  OBVIOUS
<1>6. I \in 1..Last /\ Assigned(HighestRole)' = I /\ HighestRole' = R
      /\ Assigned(HighestRole) = I /\ HighestRole = R
  BY <1>2, <1>3, <1>4, <1>5
<1> HIDE DEF i, role
<1>7. \A j \in 1..Last : Matches(j, R)' <=> Matches(j, R)
  BY <1>0 DEF Matches
<1>8. ASSUME NEW j \in Last+1..Last' PROVE ~Matches(j, R)'
  BY <1>0, <1>8 DEF Matches
<1>9. ASSUME NEW j \in I..Last PROVE j \in LinearRun(I)' <=> j \in LinearRun(I)
  <2>1. \A k \in I+1..j : revisions'[k] = revisions[k] /\ revisions'[k - 1] = revisions[k - 1]
    <3> TAKE k \in I+1..j
    <3>1. k \in 1..Last /\ k - 1 \in 1..Last
      BY <1>0, <1>6
    <3> QED
      BY <1>0, <3>1
  <2>2. j \in I..Last'
    BY <1>0, <1>6
  <2> QED
    BY <2>1, <2>2 DEF LinearRun
<1>10. {j \in LinearRun(I)' : Matches(j, R)'} = {j \in LinearRun(I) : Matches(j, R)}
  <2>1. LinearRun(I) \subseteq I..Last /\ LinearRun(I)' \subseteq I..Last'
    BY DEF LinearRun
  <2>2. \A j \in I..Last' : j \in I..Last \/ j \in Last+1..Last'
    BY <1>0, <1>6
  <2>3. \A j \in I..Last : j \in 1..Last
    BY <1>0, <1>6
  <2> QED
    BY <1>7, <1>8, <1>9, <2>1, <2>2, <2>3
<1>11. Advance(I, R)' = Advance(I, R)
  BY <1>10 DEF Advance
<1>12. DefaultRevision = IF Matches(I, R) THEN I ELSE Advance(I, R)
  BY <1>6 DEF DefaultRevision
<1>13. DefaultRevision' = IF Matches(I, R)' THEN I ELSE Advance(I, R)'
  BY <1>1, <1>6 DEF DefaultRevision
<1> QED
  BY <1>6, <1>7, <1>11, <1>12, <1>13

(* Whatever is appended for other contexts, to a list of any length, the   *)
(* default revision stays where it is once a role of the default context   *)
(* is assigned.                                                            *)
THEOREM OtherContextsKeep == Spec => OtherContextsKeepSelection
<1>1. SelectInv /\ SelectInv' /\ [Next]_vars =>
        [(/\ CandidateRoles # {}
          /\ \A role \in Roles :
               assigned'[<<Default, role>>] = assigned[<<Default, role>>]
          /\ \A i \in Last+1..Len(revisions') : revisions'[i].ctx # Default)
         => DefaultRevision' = DefaultRevision]_vars
  BY SameSelection
<1> QED
  BY <1>1, SelectStart, SelectStep, PTL DEF Spec, OtherContextsKeepSelection
=============================================================================
