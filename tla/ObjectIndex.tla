------------------------------- MODULE ObjectIndex -------------------------------
(***************************************************************************)
(* The two walks over the object groups of an object space, one after the  *)
(* other:                                                                  *)
(*   - parse_object_spaces_with_resolved_ids (onestore/object_space.py)    *)
(*     builds the id table of every revision and resolves the ids of all   *)
(*     changes;                                                            *)
(*   - apply_object_groups (ms_one/object_index.py) reads the same groups  *)
(*     again for the chain of the default revision and replays the         *)
(*     changes into the object index.                                      *)
(* The nodes of the file are chosen when the first walk reads them and     *)
(* kept in `script' for the second.  The revisions depend on one another   *)
(* in list order (RevisionSelection has the general case), and a list node *)
(* is left out if both walks skip it.  GidTable shows how a table is made. *)
(***************************************************************************)
EXTENDS Integers, Sequences, FiniteSetsExt

CONSTANTS
    Indices,     \* CompactID.guidIndex
    Guids,
    ZeroGuid,    \* the GUID an id gets when it cannot be resolved
    None,        \* no table, no jcid, no properties, no reference
    Broken,      \* data that cannot be decoded
    Plain,       \* data that refers to no object
    MaxNodes     \* bound: length of the script

Table == {t \in UNION {[S -> Guids] : S \in SUBSET Indices} :
            \A i, j \in DOMAIN t : t[i] = t[j] => i = j}
Empty == [i \in {} |-> None]
Oid   == Guids \cup {ZeroGuid}

(* A decoded property set: the node it was read from, what it refers to.   *)
Properties == [at : Nat, ref : Oid \cup {None}]

ASSUME Values == ZeroGuid \notin Guids
ASSUME NoneIsNothing == None \notin Table \cup Oid \cup {"set", "blob"} \cup Properties
ASSUME DataKinds == {Broken, Plain} \cap Indices = {} /\ Broken # Plain
ASSUME Bound == MaxNodes \in Nat

(* The data of a change: Broken, Plain, or the id it refers to.            *)
Data == {Broken, Plain} \cup Indices

(* A table in a group, declared or with one entry copied; a change.        *)
TableNode    == [kind : {"table"}, table : Table]
                \cup [kind : {"copy"}, from : Indices, to : Indices]
Declare      == [kind : {"declare"}, id : Indices, jcid : {"set", "blob"}, data : Data]
Revise       == [kind : {"revise"}, id : Indices, data : Data]
Change       == Declare \cup Revise

VARIABLES
    strict,    \* ctx.strict
    pc,        \* "resolving", "indexing", "done" or "failed"
    script,    \* the nodes read by the first walk
    base,      \* table_for_revision of the first walk; None: no table
    current,   \* current_table of the first walk
    oids,      \* what the first walk resolved each node of the script to
    pos,       \* the node the second walk reads next
    base2,     \* initial_table of the second walk
    current2,  \* current_table of the second walk
    oids2,     \* what the second walk resolved each node to
    objects    \* the object index

walk1 == <<script, base, current, oids>>
walk2 == <<pos, base2, current2, oids2, objects>>
vars  == <<strict, pc, walk1, walk2>>

Init ==
    /\ strict \in BOOLEAN
    /\ pc = "resolving"
    /\ script = <<>>
    /\ base = None
    /\ current = None
    /\ oids = <<>>
    /\ pos = 1
    /\ base2 = Empty
    /\ current2 = Empty
    /\ oids2 = <<>>
    /\ objects = Empty

Raise == pc' = "failed" /\ UNCHANGED <<strict, walk1, walk2>>

-----------------------------------------------------------------------------
(* What both walks use.                                                    *)

(* _resolve_compact_id_to_extended_guid                                    *)
Resolvable(table, id) == table # None /\ id \in DOMAIN table
Resolved(table, id) == IF Resolvable(table, id) THEN table[id] ELSE ZeroGuid
Rejected(table, id) == strict /\ ~Resolvable(table, id)

(* A table sequence inside a group, built from the revision's table t.     *)
CopyRejected(t, node) == IF t = None THEN strict ELSE node.from \notin DOMAIN t
TableOf(t, node) ==
    IF node.kind = "table" THEN node.table
    ELSE IF t = None THEN Empty
    ELSE [i \in {node.to} |-> t[node.from]]

-----------------------------------------------------------------------------
(* The first walk.                                                         *)

Reading == pc = "resolving" /\ Len(script) < MaxNodes
Read(node, oid) == script' = Append(script, node) /\ oids' = Append(oids, oid)
InGroup == script # <<>> /\ script[Len(script)].kind # "revision"

Effective(t) == IF t = None THEN Empty ELSE t

(* The next revision has a table of its own, or its dependency's; the      *)
(* first one may have none, and is then an empty dependency for the next.  *)
ReadRevision ==
    /\ Reading
    /\ \E t \in Table \cup {None} :
         /\ base' = IF t # None THEN t
                    ELSE IF script = <<>> THEN None ELSE Effective(base)
         /\ Read([kind |-> "revision", table |-> Effective(base')], None)
    /\ current' = base'
    /\ UNCHANGED <<strict, pc, walk2>>

ReadGroup ==
    /\ Reading /\ script # <<>>
    /\ Read([kind |-> "group"], None)
    /\ current' = base
    /\ UNCHANGED <<strict, pc, base, walk2>>

ReadTable ==
    /\ Reading /\ InGroup
    /\ \E node \in TableNode :
         /\ node.kind = "copy" => ~CopyRejected(base, node)
         /\ current' = TableOf(base, node)
         /\ Read(node, None)
    /\ UNCHANGED <<strict, pc, base, walk2>>

RejectTable ==
    /\ Reading /\ InGroup
    /\ \E node \in TableNode : node.kind = "copy" /\ CopyRejected(base, node)
    /\ Raise

ReadChange ==
    /\ Reading /\ InGroup
    /\ \E node \in Change :
         /\ ~Rejected(current, node.id)
         /\ Read(node, Resolved(current, node.id))
    /\ UNCHANGED <<strict, pc, base, current, walk2>>

RejectChange ==
    /\ Reading /\ InGroup
    /\ \E id \in Indices : Rejected(current, id)
    /\ Raise

StartIndexing ==
    /\ pc = "resolving" /\ script # <<>>
    /\ pc' = "indexing"
    /\ UNCHANGED <<strict, walk1, walk2>>

-----------------------------------------------------------------------------
(* The second walk.                                                        *)

Indexing == pc = "indexing" /\ pos <= Len(script)
Node == script[pos]
Replay(oid) == pos' = pos + 1 /\ oids2' = Append(oids2, oid)

IndexRevisionTableOnce ==
    /\ Indexing /\ Node.kind = "revision"
    /\ base2' = IF pos = 1 THEN Node.table ELSE base2
    /\ current2' = base2'
    /\ Replay(None)
    /\ UNCHANGED <<strict, pc, walk1, objects>>

IndexRevision ==
    /\ Indexing /\ Node.kind = "revision"
    /\ base2' = Node.table
    /\ current2' = Node.table
    /\ Replay(None)
    /\ UNCHANGED <<strict, pc, walk1, objects>>

IndexGroupKeepsTable ==
    /\ Indexing /\ Node.kind = "group"
    /\ Replay(None)
    /\ UNCHANGED <<strict, pc, walk1, base2, current2, objects>>

IndexGroup ==
    /\ Indexing /\ Node.kind = "group"
    /\ current2' = base2
    /\ Replay(None)
    /\ UNCHANGED <<strict, pc, walk1, base2, objects>>

(* A node the second walk cannot accept.                                   *)
RejectedNode ==
    \/ Node.kind = "copy" /\ CopyRejected(base2, Node)
    \/ Node.kind \in {"declare", "revise"} /\ Rejected(current2, Node.id)
RejectNode == Indexing /\ RejectedNode /\ Raise

IndexTable ==
    /\ Indexing /\ Node.kind \in {"table", "copy"}
    /\ ~RejectedNode
    /\ current2' = TableOf(base2, Node)
    /\ Replay(None)
    /\ UNCHANGED <<strict, pc, walk1, base2, objects>>

(* Only a property set is decoded.  Any OneStoreFormatError is caught      *)
(* there, that of a reference a strict parser cannot resolve too.          *)
Decoded(jcid) ==
    IF jcid # "set" \/ Node.data = Broken THEN None
    ELSE IF Node.data = Plain THEN [at |-> pos, ref |-> None]
    ELSE IF Rejected(current2, Node.data) THEN None
    ELSE [at |-> pos, ref |-> Resolved(current2, Node.data)]

Put(oid, record) ==
    objects' = [o \in DOMAIN objects \cup {oid} |->
                  IF o = oid THEN record ELSE objects[o]]

IndexDeclaration ==
    /\ Indexing /\ Node.kind = "declare"
    /\ ~RejectedNode
    /\ LET oid == Resolved(current2, Node.id)
       IN  /\ Put(oid, [jcid |-> Node.jcid, properties |-> Decoded(Node.jcid)])
           /\ Replay(oid)
    /\ UNCHANGED <<strict, pc, walk1, base2, current2>>

(* A revision keeps the jcid, and the properties if it has none of its own *)
(* that can be decoded.                                                    *)
PriorForgotten(oid) == [jcid |-> "set", properties |-> None]
Prior(oid) == IF oid \in DOMAIN objects THEN objects[oid]
              ELSE [jcid |-> None, properties |-> None]

IndexRevise ==
    /\ Indexing /\ Node.kind = "revise"
    /\ ~RejectedNode
    /\ LET oid   == Resolved(current2, Node.id)
           prior == Prior(oid)
           new   == Decoded(prior.jcid)
       IN  /\ Put(oid, [prior EXCEPT !.properties = IF new # None THEN new ELSE @])
           /\ Replay(oid)
    /\ UNCHANGED <<strict, pc, walk1, base2, current2>>

(* The default revision may be an earlier one: its chain ends there.       *)
EndIndexing ==
    /\ pc = "indexing" /\ pos > 1
    /\ pos <= Len(script) => Node.kind = "revision"
    /\ pc' = "done"
    /\ UNCHANGED <<strict, walk1, walk2>>

Stopped == pc \in {"done", "failed"} /\ UNCHANGED vars

Next ==
    \/ ReadRevision \/ ReadGroup \/ ReadTable \/ RejectTable
    \/ ReadChange \/ RejectChange \/ StartIndexing
    \/ IndexRevision \/ IndexGroup \/ IndexTable
    \/ IndexDeclaration \/ IndexRevise \/ RejectNode
    \/ EndIndexing \/ Stopped

Spec == Init /\ [][Next]_vars

-----------------------------------------------------------------------------

(* If the parser is strict, the second walk does not reject what the first *)
(* one accepts: its ids are in scope of the same tables, and a revision    *)
(* without a table is rejected by the first walk wherever the second would *)
(* miss one.  In tolerant mode it may (object_index.py:159).               *)
StrictSecondWalkAccepts ==
    [][strict /\ pc = "indexing" => pc' # "failed"]_vars

(* Both walks resolve every id to the same object, whatever tables the     *)
(* revisions and the groups before it have.                                *)
WalksResolveAlike == \A k \in 1..pos-1 : oids2[k] = oids[k]

(* The table that is in scope at node k: the latest one of its group, else *)
(* that of its revision.                                                   *)
LatestOf(k, kinds) == Max({0} \cup {j \in 1..k-1 : script[j].kind \in kinds})
ScopeAt(k) ==
    LET revision == script[LatestOf(k, {"revision"})].table
        t == LatestOf(k, {"table", "copy"})
    IN  IF t > LatestOf(k, {"group"}) THEN TableOf(revision, script[t]) ELSE revision

(* The data of change k can be decoded as a property set.                  *)
Decodable(k) ==
    /\ script[k].data # Broken
    /\ script[k].data \in Indices => ~Rejected(ScopeAt(k), script[k].data)

(* The index holds exactly what a replay of the changes gives: an object   *)
(* is of the kind of its latest declaration, and its properties are those  *)
(* of the latest change since then whose data can be decoded.              *)
Changes(o) == {k \in 1..pos-1 : oids2[k] = o}
Declared(o) == Max({0} \cup {k \in Changes(o) : script[k].kind = "declare"})
Good(o) == {k \in Changes(o) : k >= Declared(o) /\ Decodable(k)}

KindOf(o) == IF Declared(o) = 0 THEN None ELSE script[Declared(o)].jcid
DecodedFrom(k) ==
    [at |-> k, ref |-> IF script[k].data = Plain THEN None
                       ELSE Resolved(ScopeAt(k), script[k].data)]
PropertiesOf(o) ==
    IF KindOf(o) # "set" \/ Good(o) = {} THEN None ELSE DecodedFrom(Max(Good(o)))

IndexIsReplay ==
    \A o \in Oid :
      /\ o \in DOMAIN objects <=> Changes(o) # {}
      /\ o \in DOMAIN objects =>
           objects[o] = [jcid |-> KindOf(o), properties |-> PropertiesOf(o)]
=============================================================================
