----------------------------- MODULE ManifestContent -----------------------------
(***************************************************************************)
(* The content of one revision manifest (_parse_revision_manifest_content  *)
(* in onestore/object_space.py): its object groups, read from lists of     *)
(* their own (_parse_object_group_list), its global id table sequence, its *)
(* root objects and its inline changes.                                    *)
(*                                                                         *)
(* The nodes are chosen when they are read, those of a group list when the *)
(* reference to it is.  What an entry of the id table does is the matter   *)
(* of GidTable; the manifest's place in its list of RevisionManifestList.  *)
(***************************************************************************)
EXTENDS Integers, Sequences, SequencesExt

CONSTANTS
    Signatures,   \* data signature groups
    NoSignature,  \* the zero signature group
    Roles,        \* root roles
    MaxManifest,  \* bound: nodes of the manifest
    MaxGroup      \* bound: nodes of one group list

ASSUME NoSignatureIsNone == NoSignature \notin Signatures
ASSUME ContentBounds == {MaxManifest, MaxGroup} \subseteq Nat

VARIABLES
    kind,       \* start_kind: "one" or "onetoc2"
    strict,     \* ctx.strict
    where,      \* "manifest", "group", "table", "done" or "failed"
    seen,       \* the nodes read so far: type, list (0: the manifest) and signature
    phase,      \* "pre" or "post_roots"
    awaits,     \* an object group reference was read, its overrides node not yet
    groups,     \* object groups read
    ended,      \* has_end of the group being read
    table,      \* gid_table is not None
    roots,      \* the roles of root_objects
    changes,    \* changes of groups and inline: place in seen and signature
    overrides,  \* override_nodes
    sig,        \* by list of the two being read: current_sig
    reported    \* a warning was recorded

content == <<phase, awaits, groups, ended, table, roots, changes, overrides, sig, reported>>
contentVars == <<kind, strict, where, seen, content>>

ContentInit ==
    /\ kind \in {"one", "onetoc2"}
    /\ strict \in BOOLEAN
    /\ where = "manifest"
    /\ seen = <<>>
    /\ phase = "pre" /\ awaits = FALSE /\ groups = 0 /\ ended = FALSE
    /\ table = FALSE
    /\ roots = <<>> /\ changes = <<>> /\ overrides = 0
    /\ sig = [group |-> NoSignature, manifest |-> NoSignature]
    /\ reported = FALSE

-----------------------------------------------------------------------------
ListOf(place)  == IF place = "group" THEN groups ELSE 0
NodesIn(list)  == {i \in DOMAIN seen : seen[i].list = list}

See(type, s) ==
    /\ Cardinality(NodesIn(ListOf(where))) < IF where = "group" THEN MaxGroup ELSE MaxManifest
    /\ seen' = Append(seen, [type |-> type, list |-> ListOf(where), sig |-> s])

Fail == where' = "failed" /\ UNCHANGED content
FixedKind == UNCHANGED <<kind, strict>>

(* A node read in the manifest itself.                                     *)
InManifest(type) == where = "manifest" /\ See(type, NoSignature) /\ FixedKind

(* Nothing but its overrides node may follow an object group reference.    *)
RejectUnpaired ==
    /\ awaits
    /\ \E type \in {"GroupRef", "TableStart", "Root3", "Declaration", "unknown"} : InManifest(type)
    /\ Fail

(* Nodes without parser, the encryption marker (seen to before) and nodes  *)
(* that do not belong here are passed over.                                *)
SkipNode ==
    /\ ~awaits
    /\ \E type \in {"unknown", "EncryptionKey", "TableEnd", "End"} : InManifest(type)
    /\ UNCHANGED <<where, content>>

ReadOverrides ==
    /\ InManifest("Overrides")
    /\ overrides' = overrides + 1
    /\ awaits' = FALSE
    /\ UNCHANGED <<where, phase, groups, ended, table, roots, changes, sig, reported>>

ReadSignature ==
    /\ ~awaits
    /\ where \in {"manifest", "group"} /\ ~(where = "group" /\ (ended \/ NodesIn(groups) = {}))
    /\ \E s \in Signatures :
         /\ See("Signature", s)
         /\ sig' = [sig EXCEPT ![where] = s]
    /\ FixedKind
    /\ UNCHANGED <<where, phase, awaits, groups, ended, table, roots, changes, overrides, reported>>

(* Every group list starts without a signature group.                      *)
SigsAtGroupKept == sig
SigsAtGroup == [sig EXCEPT !.group = NoSignature]

ReadGroupRef ==
    /\ ~awaits
    /\ InManifest("GroupRef")
    /\ IF kind = "one" /\ phase = "pre"
       THEN /\ where' = "group"
            /\ groups' = groups + 1 /\ ended' = FALSE
            /\ sig' = SigsAtGroup
            /\ UNCHANGED <<phase, awaits, table, roots, changes, overrides, reported>>
       ELSE Fail
-----------------------------------------------------------------------------
(* The group list begins with its start node, which names the group.       *)
InGroup(type) == where = "group" /\ See(type, NoSignature) /\ FixedKind
Begun == NodesIn(groups) # {}

StartGroup ==
    /\ ~Begun /\ InGroup("GroupStart")
    /\ \E matches \in BOOLEAN :
         IF strict /\ ~matches THEN Fail
         ELSE /\ reported' = (reported \/ ~matches)
              /\ UNCHANGED <<where, phase, awaits, groups, ended, table, roots, changes,
                             overrides, sig>>

RejectGroup == ~Begun /\ InGroup("unknown") /\ Fail

SkipInGroup ==
    /\ Begun
    /\ \E type \in {"unknown"} \cup (IF ended THEN {"Declaration"} ELSE {}) : InGroup(type)
    /\ UNCHANGED <<where, content>>

ChangeInGroup ==
    /\ Begun /\ ~ended /\ InGroup("Declaration")
    /\ changes' = Append(changes, [at |-> Len(seen) + 1, sig |-> sig.group])
    /\ UNCHANGED <<where, phase, awaits, groups, ended, table, roots, overrides, sig, reported>>

EndMark ==
    /\ Begun /\ ~ended /\ InGroup("GroupEnd")
    /\ ended' = TRUE
    /\ UNCHANGED <<where, phase, awaits, groups, table, roots, changes, overrides, sig, reported>>

(* The list ends, with its end node or without.                            *)
EndGroup ==
    /\ where = "group"
    /\ where' = IF Begun THEN "manifest" ELSE "failed"
    /\ awaits' = Begun
    /\ UNCHANGED <<kind, strict, seen, phase, groups, ended, table, roots, changes, overrides, sig,
                   reported>>
-----------------------------------------------------------------------------
StartTable ==
    /\ ~awaits
    /\ InManifest("TableStart")
    /\ IF table \/ phase # "pre" THEN Fail
       ELSE /\ where' = "table" /\ phase' = "post_roots"
            /\ UNCHANGED <<awaits, groups, ended, table, roots, changes, overrides, sig, reported>>

InTable(type) == where = "table" /\ See(type, NoSignature) /\ FixedKind

ReadEntry  == InTable("TableEntry") /\ UNCHANGED <<where, content>>
RejectEntry == \E type \in {"unknown", "TableStart", "Root3"} : InTable(type) /\ Fail

EndTable ==
    /\ InTable("TableEnd")
    /\ where' = "manifest" /\ table' = TRUE
    /\ UNCHANGED <<phase, awaits, groups, ended, roots, changes, overrides, sig, reported>>

(* A 3-reference closes the manifest for groups and table, a 2-reference   *)
(* does not; after the table the latter is out of order.                   *)
ReadRoot3LeavesOpen ==
    /\ ~awaits
    /\ InManifest("Root3")
    /\ IF kind = "onetoc2" THEN Fail
       ELSE /\ \E role \in Roles : roots' = Append(roots, role)
            /\ UNCHANGED <<where, phase, awaits, groups, ended, table, changes, overrides, sig,
                           reported>>
ReadRoot3 ==
    /\ ~awaits
    /\ InManifest("Root3")
    /\ IF kind = "onetoc2" THEN Fail
       ELSE /\ \E role \in Roles : roots' = Append(roots, role)
            /\ phase' = "post_roots"
            /\ UNCHANGED <<where, awaits, groups, ended, table, changes, overrides, sig, reported>>

ReadRoot2 ==
    /\ ~awaits
    /\ InManifest("Root2")
    /\ IF kind # "onetoc2" \/ (table /\ strict) THEN Fail
       ELSE /\ \E role \in Roles : roots' = Append(roots, role)
            /\ reported' = (reported \/ table)
            /\ UNCHANGED <<where, phase, awaits, groups, ended, table, changes, overrides, sig>>

ReadChange ==
    /\ ~awaits
    /\ InManifest("Declaration")
    /\ IF ~table /\ strict THEN Fail
       ELSE /\ changes' = Append(changes, [at |-> Len(seen) + 1, sig |-> sig.manifest])
            /\ phase' = "post_roots"
            /\ reported' = (reported \/ ~table \/ kind # "onetoc2")
            /\ UNCHANGED <<where, awaits, groups, ended, table, roots, overrides, sig>>

(* A root role may stand for one object only.                              *)
EndContent ==
    /\ where \in {"manifest", "table"}
    /\ where' = IF where = "table" \/ awaits \/ (strict /\ ~IsInjective(roots))
                THEN "failed" ELSE "done"
    /\ reported' = (reported \/ ~IsInjective(roots))
    /\ UNCHANGED <<kind, strict, seen, phase, awaits, groups, ended, table, roots, changes,
                   overrides, sig>>

ContentStop == where \in {"done", "failed"} /\ UNCHANGED contentVars

ContentNext ==
    \/ RejectUnpaired \/ SkipNode \/ ReadOverrides \/ ReadSignature
    \/ ReadGroupRef \/ StartGroup \/ RejectGroup \/ SkipInGroup \/ ChangeInGroup
    \/ EndMark \/ EndGroup
    \/ StartTable \/ ReadEntry \/ RejectEntry \/ EndTable
    \/ ReadRoot3 \/ ReadRoot2 \/ ReadChange \/ EndContent \/ ContentStop
ContentSpec == ContentInit /\ [][ContentNext]_contentVars

-----------------------------------------------------------------------------
(* The last signature group defined in a list before place n.              *)
SigBefore(list, n) ==
    LET before == {q \in 1..n-1 : seen[q].type = "Signature" /\ seen[q].list = list}
    IN  IF before = {} THEN NoSignature ELSE seen[Max(before)].sig

(* A change carries the signature group that the last definition before it *)
(* in its own list set, whatever groups were read in between.              *)
SignaturesReplay ==
    \A c \in Range(changes) : c.sig = SigBefore(seen[c.at].list, c.at)

(* The parts of an accepted manifest: every group is referred to before    *)
(* the table, the 3-references and the inline changes, and is followed by  *)
(* its overrides; a strictly read table manifest has its 2-references      *)
(* before the table and its changes after it.                              *)
At(type) == {i \in NodesIn(0) : seen[i].type = type}
Before(types, later) ==
    \A s \in types, t \in later : \A i \in At(s), j \in At(t) : i < j
FollowedBy(i, type) == \E j \in At(type) : j > i /\ (i+1)..(j-1) \cap NodesIn(0) = {}
ContentInOrder ==
    where = "done" =>
        /\ Before({"GroupRef"}, {"TableStart", "Root3", "Declaration"})
        /\ \A i \in At("GroupRef") : FollowedBy(i, "Overrides")
        /\ strict => Before({"Root2"}, {"TableStart"}) /\ Before({"TableStart"}, {"Declaration"})
        /\ overrides = Cardinality(At("Overrides"))
=============================================================================
