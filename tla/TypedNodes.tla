------------------------------- MODULE TypedNodes -------------------------------
(***************************************************************************)
(* The typed file nodes (onestore/file_node_types.py): what the parser of  *)
(* each node type demands of a node, in strict and in tolerant mode.       *)
(*                                                                         *)
(* Of a node matter its base type, whether its payload has the size of its *)
(* type, and its fields: "good"; "odd", a value the format forbids and the *)
(* parser only reports; "bad", one it refuses; "nil", the nil reference of *)
(* the overrides node.  id stands for the identity it carries (an id of    *)
(* the wrong size, where that is tolerated, is cut or padded to some id).  *)
(***************************************************************************)
EXTENDS Integers, FiniteSets

BaseTypes == 0..3      \* 3 stands for all the others of the four bits
Sizes     == {"right", "wrong"}
Fields    == {"good", "odd", "bad", "nil"}

(* parse_file_node reads a chunk reference exactly for base types 1 and 2. *)
HasRef(node) == node.base \in {1, 2}

(* base: the base types; baseIsMust, sizeIsMust: whether another one is    *)
(* refused in both modes; ref: what is demanded of the chunk reference;    *)
(* fields: the values the fields can have.                                 *)
Rule(base, baseIsMust, ref, sizeIsMust, fields) ==
    [base |-> base, baseIsMust |-> baseIsMust, ref |-> ref,
     sizeIsMust |-> sizeIsMust, fields |-> fields]

Plain(fields) == Rule({0}, FALSE, "none", TRUE, fields)     \* without reference
Data(fields)  == Rule({1, 2}, FALSE, "some", TRUE, fields)  \* reference to data

ObjectSpaceManifestRootFND          == Rule({0}, TRUE, "none", TRUE, {"good"})
ObjectSpaceManifestListReferenceFND == Rule({2}, TRUE, "some", TRUE, {"good", "bad"})
ObjectSpaceManifestListStartFND     == Rule({0}, TRUE, "none", TRUE, {"good"})
RevisionManifestListReferenceFND    == Rule({2}, TRUE, "some", TRUE, {"good"})
RevisionManifestListStartFND        == Rule({0}, TRUE, "none", TRUE, {"good"})
FileDataStoreListReferenceFND       == Rule({2}, FALSE, "some", FALSE, {"good"})
FileDataStoreObjectReferenceFND     == Rule({2}, FALSE, "some", FALSE, {"good"})
RevisionManifestStart4FND           == Plain({"good", "odd", "bad"})
RevisionManifestStart6FND           == Plain({"good", "odd", "bad"})
RevisionManifestStart7FND           == Plain({"good", "odd", "bad"})
RevisionManifestEndFND              == Plain({"good"})
RevisionRoleDeclarationFND          == Plain({"good", "odd"})
RevisionRoleAndContextDeclarationFND == Plain({"good", "odd"})
ObjectDataEncryptionKeyV2FNDX       == Rule({2}, FALSE, "some", TRUE, {"good"})
GlobalIdTableStartFNDX              == Plain({"good", "odd"})
GlobalIdTableStart2FND              == Plain({"good"})
GlobalIdTableEntryFNDX              == Plain({"good", "bad"})
GlobalIdTableEntry2FNDX             == Plain({"good", "odd"})
GlobalIdTableEntry3FNDX             == Plain({"good", "odd"})
GlobalIdTableEndFNDX                == Plain({"good"})
RootObjectReference2FNDX            == Plain({"good"})
RootObjectReference3FND             == Plain({"good"})
ObjectInfoDependencyOverridesFND    == Rule({0, 1, 2}, FALSE, "any", TRUE, {"good", "nil"})
DataSignatureGroupDefinitionFND     == Plain({"good"})
ObjectGroupListReferenceFND         == Data({"good"})
ObjectGroupStartFND                 == Plain({"good"})
ObjectGroupEndFND                   == Plain({"good"})
ObjectDeclaration2RefCountFND       == Data({"good", "odd"})
ObjectDeclaration2LargeRefCountFND  == Data({"good", "odd"})
ReadOnlyObjectDeclaration2RefCountFND      == Data({"good", "odd"})
ReadOnlyObjectDeclaration2LargeRefCountFND == Data({"good", "odd"})
HashedChunkDescriptor2FND           == Rule({1}, FALSE, "some", TRUE, {"good"})
ObjectRevisionWithRefCountFNDX      == Data({"good"})
ObjectRevisionWithRefCount2FNDX     == Data({"good", "odd"})

(* FILE_NODE_TYPE_PARSERS                                                  *)
Rules ==
    [SpaceRoot |-> ObjectSpaceManifestRootFND, SpaceRef |-> ObjectSpaceManifestListReferenceFND,
     SpaceStart |-> ObjectSpaceManifestListStartFND,
     RevisionsRef |-> RevisionManifestListReferenceFND,
     RevisionsStart |-> RevisionManifestListStartFND,
     Start4 |-> RevisionManifestStart4FND, Start6 |-> RevisionManifestStart6FND,
     Start7 |-> RevisionManifestStart7FND, End |-> RevisionManifestEndFND,
     Role |-> RevisionRoleDeclarationFND, RoleAndContext |-> RevisionRoleAndContextDeclarationFND,
     EncryptionKey |-> ObjectDataEncryptionKeyV2FNDX,
     TableStart |-> GlobalIdTableStartFNDX, TableStart2 |-> GlobalIdTableStart2FND,
     TableEntry |-> GlobalIdTableEntryFNDX, TableEntry2 |-> GlobalIdTableEntry2FNDX,
     TableEntry3 |-> GlobalIdTableEntry3FNDX, TableEnd |-> GlobalIdTableEndFNDX,
     Root2 |-> RootObjectReference2FNDX, Root3 |-> RootObjectReference3FND,
     Overrides |-> ObjectInfoDependencyOverridesFND,
     Signature |-> DataSignatureGroupDefinitionFND,
     FileDataListRef |-> FileDataStoreListReferenceFND,
     FileData |-> FileDataStoreObjectReferenceFND,
     Declaration |-> ObjectDeclaration2RefCountFND,
     LargeDeclaration |-> ObjectDeclaration2LargeRefCountFND,
     GroupRef |-> ObjectGroupListReferenceFND, GroupStart |-> ObjectGroupStartFND,
     GroupEnd |-> ObjectGroupEndFND,
     ReadOnlyDeclaration |-> ReadOnlyObjectDeclaration2RefCountFND,
     LargeReadOnlyDeclaration |-> ReadOnlyObjectDeclaration2LargeRefCountFND,
     Chunk |-> HashedChunkDescriptor2FND,
     ObjectRevision |-> ObjectRevisionWithRefCountFNDX,
     ObjectRevision2 |-> ObjectRevisionWithRefCount2FNDX]

Types == DOMAIN Rules

(* Inline override data is limited where it is the data, and only reported *)
(* where a reference is: the size of the overrides node is a MUST or not.  *)
SizeIsMust(node) ==
    IF node.type = "Overrides" THEN ~HasRef(node) \/ node.field = "nil"
    ELSE Rules[node.type].sizeIsMust

(* What is refused in both modes, and what only strict mode refuses.       *)
Refused(node) ==
    LET rule == Rules[node.type] IN
    \/ node.base \notin rule.base /\ rule.baseIsMust
    \/ rule.ref = "some" /\ ~HasRef(node)
    \/ rule.ref = "none" /\ HasRef(node)
    \/ node.size = "wrong" /\ SizeIsMust(node)
    \/ node.field = "bad"
Reported(node) ==
    LET rule == Rules[node.type] IN
    \/ node.base \notin rule.base /\ ~rule.baseIsMust
    \/ node.size = "wrong" /\ ~SizeIsMust(node)
    \/ node.field = "odd"

(* parse_typed_file_node: a type without parser stays untyped.             *)
VerdictSwapped(node, strict) ==
    IF node.type \notin Types THEN "untyped"
    ELSE IF Refused(node) \/ (~strict /\ Reported(node)) THEN "raises"
    ELSE "typed"
Verdict(node, strict) ==
    IF node.type \notin Types THEN "untyped"
    ELSE IF Refused(node) \/ (strict /\ Reported(node)) THEN "raises"
    ELSE "typed"
Warns(node) == node.type \notin Types \/ Reported(node) \/ node.base = 3

(* A node of a type that is as it should be.  Only a chunk has a hash.     *)
Good(type, id) ==
    [type |-> type, size |-> "right", field |-> "good", id |-> id, hash |-> 0,
     base |-> IF type \in Types THEN CHOOSE b \in Rules[type].base : TRUE ELSE 0]
=============================================================================
