--------------------------- MODULE RevisionSelection ---------------------------
(***************************************************************************)
(* What ms_one/reader.py makes of a revision list: the default revision of *)
(* an object space, the chain of revisions whose object groups are         *)
(* replayed for it, and the revision whose root objects are used.          *)
(*                                                                         *)
(* The operators are evaluated on every list RevisionManifestList reaches, *)
(* also on the prefixes of a list: a writer that is interrupted, or whose  *)
(* last transaction is not committed, leaves just such a prefix.           *)
(***************************************************************************)
EXTENDS RevisionManifestList, FiniteSetsExt

Last == Len(revisions)
IndexOf(rid) == CHOOSE i \in 1..Last : revisions[i].rid = rid

(* _pick_default_revision_index.  Candidate assignments are those of the   *)
(* default context that name a revision of the list.                       *)
CandidateRoles ==
    {role \in Roles : assigned[<<Default, role>>] # Zero}

Assigned(role) == IndexOf(assigned[<<Default, role>>])

MatchesAnyContext(i, role) == revisions[i].role = role
Matches(i, role) == revisions[i].ctx = Default /\ revisions[i].role = role

(* The revisions from i on that are each the dependency of the next one.   *)
LinearRunUnbroken(i) == i..Last
LinearRun(i) ==
    {j \in i..Last : \A k \in i+1..j : revisions[k].dep = revisions[k-1].rid}

(* The newest match in the linear run of an assigned revision that does    *)
(* not itself match its assignment.                                        *)
Advance(i, role) ==
    LET M == {j \in LinearRun(i) : Matches(j, role)}
    IN  IF M = {} THEN i ELSE Max(M)

HighestRole == Max(CandidateRoles)

DefaultRevision ==
    IF CandidateRoles = {} THEN Last
    ELSE LET i == Assigned(HighestRole)
         IN  IF Matches(i, HighestRole) THEN i ELSE Advance(i, HighestRole)

(* _build_dependency_chain_indices, as a set: list order is replay order.  *)
(* The walk ends at a dependency that is missing or already visited.       *)
DependencyOf(j) == {k \in 1..Last : revisions[k].rid = revisions[j].dep}
Chain(i) ==
    LET visited[n \in 0..Last] ==
          IF n = 0 THEN {i}
          ELSE visited[n-1] \cup UNION {DependencyOf(j) : j \in visited[n-1]}
    IN  visited[Last]

(* _build_effective_root_objects: the nearest revision of the chain that   *)
(* has root objects, 0 if none has.                                        *)
RootSource(i) == Max({0} \cup {j \in Chain(i) : revisions[j].rooted})

(* parse_section_file: the roots of the LAST revision, or those of the     *)
(* default one.                                                            *)
SectionRootSource ==
    IF RootSource(Last) # 0 THEN RootSource(Last) ELSE RootSource(DefaultRevision)

-----------------------------------------------------------------------------
(* The default revision is the one assigned to the highest role of the     *)
(* default context, or a later one that matches that role and replays it.  *)
SelectionReplaysAssigned ==
    CandidateRoles # {} =>
        LET i == Assigned(HighestRole)
        IN  /\ i \in Chain(DefaultRevision)
            /\ i # DefaultRevision => Matches(DefaultRevision, HighestRole)

(* The replay of the default revision starts at a revision that depends on *)
(* nothing: no dependency is missing, and the chain does not loop.         *)
ChainIsComplete ==
    Last > 0 =>
        /\ revisions[Min(Chain(DefaultRevision))].dep = Zero
        /\ \A j \in Chain(DefaultRevision) :
             j # DefaultRevision =>
               \E k \in Chain(DefaultRevision) :
                 k > j /\ revisions[k].dep = revisions[j].rid

(* Once the default context is assigned, what is appended for another      *)
(* context does not move the default view.                                 *)
OtherContextsKeepSelection ==
    [][(/\ CandidateRoles # {}
        /\ \A role \in Roles :
             assigned'[<<Default, role>>] = assigned[<<Default, role>>]
        /\ \A i \in Last+1..Len(revisions') : revisions'[i].ctx # Default)
       => DefaultRevision' = DefaultRevision]_vars

(* reader.py:207 and :209 say the object index replays the chain of the    *)
(* latest revision; the section's roots are taken from that revision.      *)
(* Then the revision the section's roots come from is one of those whose   *)
(* objects are in the index.                                               *)
SectionRootsAreIndexed ==
    (pc = "done" /\ Last > 0) =>
        SectionRootSource \in Chain(DefaultRevision) \cup {0}
=============================================================================
