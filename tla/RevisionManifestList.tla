-------------------------- MODULE RevisionManifestList --------------------------
(***************************************************************************)
(* The revision manifest list of one object space, split into revisions by *)
(* _parse_revision_manifest_list_revisions (onestore/object_space.py), and *)
(* the encryption check parse_object_spaces_with_revisions makes on the    *)
(* result.                                                                 *)
(*                                                                         *)
(* The file nodes of the list are chosen one by one as the loop reads      *)
(* them.  What a manifest contains is read by ManifestContent; here it     *)
(* matters only whether it can be parsed and whether it has root objects.  *)
(***************************************************************************)
EXTENDS Integers, Sequences

CONSTANTS
    Rids,        \* revision ids (not the zero id)
    Zero,        \* the zero id: no dependency, or an invalid rid
    Default,     \* DEFAULT_CONTEXT_GCTXID
    Contexts,    \* the contexts that occur, Default among them
    Roles,       \* revision roles
    Keys,        \* encryption key references; {}: the file has no markers
    RootKinds,   \* bound: whether manifests may have, or lack, root objects
    Strict,      \* ctx.strict
    MaxDeclared, \* bound: role declarations of the list
    MaxInside    \* bound: nodes of one manifest besides its start and end

ASSUME ZeroIsNoRid == Zero \notin Rids
ASSUME Context == Default \in Contexts
ASSUME Role == Roles \subseteq Nat
ASSUME Mode == Strict \in BOOLEAN /\ RootKinds \subseteq BOOLEAN
ASSUME Bounds == {MaxDeclared, MaxInside} \subseteq Nat

Pairs == Contexts \X Roles

(* RevisionManifestStart4FND, Start6FND or Start7FND.  Start4 and Start6   *)
(* are always of the default context.                                      *)
Start == [rid : Rids \cup {Zero}, dep : Rids \cup {Zero}, ctx : Contexts,
          role : Roles, encrypted : IF Keys = {} THEN {FALSE} ELSE BOOLEAN]

(* RevisionSummary                                                         *)
Revision == [rid : Rids, dep : Rids \cup {Zero}, ctx : Contexts, role : Roles,
             encrypted : BOOLEAN, marker : BOOLEAN, rooted : BOOLEAN]

VARIABLES
    pc,         \* "reading", "done" or "failed"
    started,    \* started_rids
    revisions,  \* the revisions of the list, in order
    assigned,   \* role_assignments; Zero: the pair has no assignment
    inside,     \* current_rid is not None
    current,    \* current_rid ... current_encryption_required
    pos,        \* current_manifest_pos
    declared    \* how many role declarations were read

vars == <<pc, started, revisions, assigned, inside, current, pos, declared>>

TypeOK ==
    /\ pc \in {"reading", "done", "failed"}
    /\ started \subseteq Rids
    /\ revisions \in Seq(Revision)
    /\ assigned \in [Pairs -> Rids \cup {Zero}]
    /\ inside \in BOOLEAN
    /\ inside => current \in Revision
    /\ pos \in 0..(MaxInside + 2)
    /\ declared \in 0..MaxDeclared

Init ==
    /\ pc = "reading"
    /\ started = {}
    /\ revisions = <<>>
    /\ assigned = [p \in Pairs |-> Zero]
    /\ inside = FALSE
    /\ current = Zero
    /\ pos = 0
    /\ declared = 0

Raise ==
    /\ pc' = "failed"
    /\ UNCHANGED <<started, revisions, assigned, inside, current, pos, declared>>

-----------------------------------------------------------------------------
(* Outside a revision manifest.                                            *)

StartIsValidUnordered(s) == s.rid # Zero /\ s.rid \notin started
StartIsValid(s) ==
    /\ s.rid # Zero
    /\ s.rid \notin started
    /\ s.dep # Zero => s.dep \in started

StartRevision ==
    /\ pc = "reading" /\ ~inside
    /\ \E s \in Start :
         /\ StartIsValid(s)
         /\ started' = started \cup {s.rid}
         /\ current' = [rid |-> s.rid, dep |-> s.dep, ctx |-> s.ctx, role |-> s.role,
                        encrypted |-> s.encrypted, marker |-> FALSE, rooted |-> FALSE]
    /\ inside' = TRUE
    /\ pos' = 1
    /\ UNCHANGED <<pc, revisions, assigned, declared>>

RejectStart ==
    /\ pc = "reading" /\ ~inside
    /\ ~\A s \in Start : StartIsValid(s)
    /\ Raise

(* RevisionManifestEndFND without a start.                                 *)
RejectEnd == pc = "reading" /\ ~inside /\ Raise

(* RevisionRoleDeclarationFND (of the default context) and                 *)
(* RevisionRoleAndContextDeclarationFND: the last assignment wins.         *)

DeclareUnknownRole ==
    /\ pc = "reading" /\ ~inside
    /\ declared < MaxDeclared
    /\ declared' = declared + 1
    /\ \E pair \in Pairs, rid \in Rids :
         assigned' = [assigned EXCEPT ![pair] = rid]
    /\ UNCHANGED <<pc, started, revisions, inside, current, pos>>

DeclareRole ==
    /\ pc = "reading" /\ ~inside
    /\ declared < MaxDeclared
    /\ declared' = declared + 1
    /\ \E pair \in Pairs, rid \in started :
         assigned' = [assigned EXCEPT ![pair] = rid]
    /\ UNCHANGED <<pc, started, revisions, inside, current, pos>>

RejectRole ==
    /\ pc = "reading" /\ ~inside
    /\ Rids \ started # {}
    /\ Raise

(* A marker (warned about) or any other node: no effect.                   *)
IgnoreOutside == pc = "reading" /\ ~inside /\ UNCHANGED vars

-----------------------------------------------------------------------------
(* Inside a revision manifest.  The second node of an encrypted manifest   *)
(* must be the marker.                                                     *)

MarkerMissing == pos = 1 /\ current.encrypted

(* ObjectDataEncryptionKeyV2FNDX: the second node, or warned about.        *)
ReadMarker ==
    /\ pc = "reading" /\ inside
    /\ Keys # {}
    /\ pos <= MaxInside
    /\ pos' = pos + 1
    /\ current' = [current EXCEPT !.marker = TRUE]
    /\ UNCHANGED <<pc, started, revisions, assigned, inside, declared>>

(* Any node the manifest's content is made of, and a start node too: a     *)
(* manifest without an end swallows the next one.                          *)
ReadContent ==
    /\ pc = "reading" /\ inside
    /\ ~MarkerMissing
    /\ pos <= MaxInside
    /\ pos' = pos + 1
    /\ UNCHANGED <<pc, started, revisions, assigned, inside, current, declared>>

RejectUnmarked == pc = "reading" /\ inside /\ MarkerMissing /\ Raise

(* A role declaration inside a manifest, or content that cannot be parsed. *)
RejectContent == pc = "reading" /\ inside /\ Raise

(* RevisionManifestEndFND: the content is parsed, the revision is done.    *)
EndRevision ==
    /\ pc = "reading" /\ inside
    /\ ~MarkerMissing
    /\ \E rooted \in RootKinds :
         revisions' = Append(revisions, [current EXCEPT !.rooted = rooted])
    /\ inside' = FALSE
    /\ current' = Zero
    /\ pos' = 0
    /\ UNCHANGED <<pc, started, assigned, declared>>

-----------------------------------------------------------------------------
(* The end of the node list.                                               *)

RejectUnfinished == pc = "reading" /\ inside /\ Raise

Marked == {i \in DOMAIN revisions : revisions[i].marker}
NeverMixed == FALSE
MixedEncryption == Marked # {} /\ Marked # DOMAIN revisions

RejectMixed ==
    /\ pc = "reading" /\ ~inside
    /\ Strict /\ MixedEncryption
    /\ Raise

EndOfList ==
    /\ pc = "reading" /\ ~inside
    /\ ~(Strict /\ MixedEncryption)
    /\ pc' = "done"
    /\ UNCHANGED <<started, revisions, assigned, inside, current, pos, declared>>

Stopped == pc \in {"done", "failed"} /\ UNCHANGED vars

Next ==
    \/ StartRevision \/ RejectStart \/ RejectEnd
    \/ DeclareRole \/ RejectRole \/ IgnoreOutside
    \/ ReadMarker \/ ReadContent \/ RejectUnmarked \/ RejectContent \/ EndRevision
    \/ RejectUnfinished \/ RejectMixed \/ EndOfList
    \/ Stopped

Spec == Init /\ [][Next]_vars

-----------------------------------------------------------------------------
(* A revision depends only on revisions before it in the list, and no rid  *)
(* occurs twice: the dependencies form a forest in list order, which the   *)
(* replay of object groups and the inheritance of id tables rely on.       *)
DependenciesPrecede ==
    \A i \in 1..Len(revisions) :
        /\ revisions[i].dep # Zero =>
             \E j \in 1..i-1 : revisions[j].rid = revisions[i].dep
        /\ \A j \in 1..i-1 : revisions[j].rid # revisions[i].rid

(* Whenever the parser is between two manifests, every revision that a     *)
(* role assignment names is in the list: none was swallowed or lost.       *)
AssignmentsResolve ==
    \A p \in Pairs : assigned[p] # Zero =>
        \E i \in 1..Len(revisions) : revisions[i].rid = assigned[p]

(* A revision that says it is encrypted carries the marker; with strict    *)
(* parsing either all revisions of the object space carry it or none.      *)
EncryptionIsUniform ==
    /\ \A i \in 1..Len(revisions) : revisions[i].encrypted => revisions[i].marker
    /\ pc = "done" /\ Strict => Marked \in {{}, DOMAIN revisions}

=============================================================================
