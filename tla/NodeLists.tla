-------------------------------- MODULE NodeLists --------------------------------
(***************************************************************************)
(* The lists that lead into a file, each a typed node list, read by a      *)
(* strict and by a tolerant reader side by side:                           *)
(*   - the root list (build_root_file_node_list_manifests), then the       *)
(*     manifest list of every object space it refers to and the first node *)
(*     of its active revision manifest list (parse_object_spaces_summary,  *)
(*     parse_object_spaces_with_revisions);                                *)
(*   - the file data store list (parse_file_data_store_index);             *)
(*   - the hashed chunk list (parse_hashed_chunk_list_entries, _index);    *)
(*   - any single node (parse_typed_file_node).                            *)
(* The nodes of a list are chosen when they are read.                      *)
(***************************************************************************)
EXTENDS TypedNodes, Sequences, SequencesExt

CONSTANTS
    Ids,         \* object spaces, file data guids, hashed blobs
    Hashes,      \* MD5 values; Hash[b] is the right one of blob b
    Hash,
    Tasks,       \* bound: the lists a run reads
    MaxNodes     \* bound: nodes of a list

ASSUME HashIsHash == Hash \in [Ids -> Hashes]
ASSUME Bounds == MaxNodes \in Nat \ {0} /\ Ids \subseteq Nat /\ Hashes \subseteq Nat \ {0}

Modes == {"strict", "tolerant"}
Lists == {"root", "space", "revisions", "files", "hashed", "node"}

(* What a list is read for, and what strict mode allows in it at all.      *)
Wanted == [root |-> {"SpaceRoot", "SpaceRef", "FileDataListRef"}, space |-> {"RevisionsRef"},
           revisions |-> {}, files |-> {"FileData"}, hashed |-> {"Chunk"}, node |-> Types]
WantsOnly == {"root", "files", "hashed"}
StartOf   == [space |-> "SpaceStart", revisions |-> "RevisionsStart"]

VARIABLES
    task,      \* the list being read
    open,      \* there is more to read
    validate,  \* validate_md5
    nodes,     \* the nodes of the list read so far
    kept,      \* by mode: the places in it of the nodes the reader keeps
    alive,     \* by mode: no OneStoreFormatError yet
    warned,    \* by mode: whether a warning was recorded
    todo,      \* the object spaces the root list refers to, not yet read
    value      \* by mode: what the reader has returned: one entry per list

vars == <<task, open, validate, nodes, kept, alive, warned, todo, value>>

Init ==
    /\ task \in Tasks
    /\ open = TRUE
    /\ validate \in BOOLEAN
    /\ nodes = <<>>
    /\ kept = [m \in Modes |-> <<>>]
    /\ alive = [m \in Modes |-> TRUE]
    /\ warned = [m \in Modes |-> FALSE]
    /\ todo = <<>>
    /\ value = [m \in Modes |-> <<>>]

-----------------------------------------------------------------------------
IsStrict(mode) == mode = "strict"

(* The first node of the lists that begin with a node of their own.        *)
BadStart(mode, node) ==
    /\ nodes = <<>> /\ task \in DOMAIN StartOf
    /\ \/ node.type # StartOf[task]
       \/ IsStrict(mode) /\ node.id # Head(todo)

(* Only the first reference to a file data object counts.                  *)
RepeatsNever(mode, node) == FALSE
Repeats(mode, node) ==
    task = "files" /\ \E i \in DOMAIN kept[mode] : nodes[kept[mode][i]].id = node.id

(* MD5 of the blob, compared on demand.                                    *)
WrongHash(node) == task = "hashed" /\ validate /\ node.hash # Hash[node.id]

Keeps(mode, node) == node.type \in Wanted[task] /\ ~Repeats(mode, node)

Raises(mode, node) ==
    \/ Verdict(node, IsStrict(mode)) = "raises"
    \/ BadStart(mode, node)
    \/ /\ IsStrict(mode) /\ task \in WantsOnly
       /\ node.type \notin Wanted[task] \/ Repeats(mode, node) \/ WrongHash(node)

(* The nodes a list is fed with: those it is read for, one it is not read  *)
(* for, one without parser, good ones and such of the wrong size; as a     *)
(* single node every type with every flaw.                                 *)
WithId == {"SpaceRoot", "SpaceRef", "SpaceStart", "RevisionsStart", "FileData", "Chunk"}
InputTypes == Wanted[task] \cup Range(StartOf) \cup {"End", "unknown"}
AnyId == CHOOSE id \in Ids : TRUE
SingleNodes ==
    UNION {{[Good(type, AnyId) EXCEPT !.base = b, !.size = size, !.field = field] :
             b \in BaseTypes, size \in Sizes, field \in Rules[type].fields} : type \in Types}
ListNodes ==
    {node \in {[Good(x.type, x.id) EXCEPT !.size = x.size, !.hash = x.hash] :
                 x \in [type : InputTypes, id : Ids, size : Sizes, hash : {0} \cup Hashes]} :
       /\ node.size = "wrong" => node.type \in Wanted[task]
       /\ node.type \notin WithId => node.id = AnyId
       /\ node.hash = 0 <=> node.type # "Chunk"}
InputNodes == IF task = "node" THEN SingleNodes ELSE ListNodes

Raised  == \A m \in Modes : ~alive[m]
Reading == open /\ ~Raised

ReadNode ==
    /\ Reading
    /\ Len(nodes) < IF task \in {"node", "revisions"} THEN 1 ELSE MaxNodes
    /\ \E node \in InputNodes :
         /\ nodes' = Append(nodes, node)
         /\ alive' = [m \in Modes |-> alive[m] /\ ~Raises(m, node)]
         /\ kept' = [m \in Modes |->
              IF Keeps(m, node) THEN Append(kept[m], Len(nodes) + 1) ELSE kept[m]]
         /\ warned' = [m \in Modes |-> \/ warned[m] \/ Warns(node)
                                       \/ Repeats(m, node) \/ WrongHash(node)]
    /\ UNCHANGED <<task, open, validate, todo, value>>

-----------------------------------------------------------------------------
KeptNodes(mode)      == [i \in DOMAIN kept[mode] |-> nodes[kept[mode][i]]]
KeptOf(mode, type)   == SelectSeq(KeptNodes(mode), LAMBDA node : node.type = type)
IdsOf(seq)           == [i \in DOMAIN seq |-> seq[i].id]

(* Before the next list is read.                                           *)
Begin(next) ==
    IF next = "none" THEN UNCHANGED <<nodes, kept>>
    ELSE nodes' = <<>> /\ kept' = [m \in Modes |-> <<>>]

(* The list ends; mode m fails, or returns out[m] for it.  next: the list  *)
(* to be read then, or "none".                                             *)
Return(fails, out, next, rest) ==
    /\ open' = (next # "none")
    /\ task' = IF next = "none" THEN task ELSE next
    /\ alive' = [m \in Modes |-> alive[m] /\ ~fails[m]]
    /\ value' = [m \in Modes |-> Append(value[m], out[m])]
    /\ todo' = rest
    /\ Begin(next)
    /\ UNCHANGED validate

EndRoot ==
    /\ task = "root" /\ Reading
    /\ LET roots(m)  == IdsOf(KeptOf(m, "SpaceRoot"))
           spaces(m) == IdsOf(KeptOf(m, "SpaceRef"))
           fails == [m \in Modes |->
               \/ Len(roots(m)) # 1
               \/ spaces(m) = <<>>
               \/ Len(KeptOf(m, "FileDataListRef")) > 1
               \/ ~IsInjective(spaces(m))
               \/ roots(m)[1] \notin Range(spaces(m))]
           some == IF alive["strict"] THEN "strict" ELSE "tolerant"
       IN Return(fails, [m \in Modes |-> [root |-> roots(m), spaces |-> spaces(m)]],
                 IF fails[some] THEN "none" ELSE "space", spaces(some))
    /\ UNCHANGED warned

(* Of several references to revision manifest lists the last is active.    *)
EndSpace ==
    /\ task = "space" /\ Reading
    /\ LET fails == [m \in Modes |-> kept[m] = <<>>]
       IN Return(fails, [m \in Modes |-> IF fails[m] THEN 0 ELSE Last(kept[m])],
                 IF \A m \in Modes : fails[m] THEN "none" ELSE "revisions", todo)
    /\ UNCHANGED warned

EndRevisions ==
    /\ task = "revisions" /\ Reading
    /\ LET fails == [m \in Modes |-> nodes = <<>>]
       IN Return(fails, [m \in Modes |-> Head(todo)],
                 IF nodes = <<>> \/ Len(todo) = 1 THEN "none" ELSE "space", Tail(todo))
    /\ UNCHANGED warned

EndFiles ==
    /\ task = "files" /\ Reading
    /\ Return([m \in Modes |-> FALSE],
              [m \in Modes |-> {<<nodes[p].id, p>> : p \in Range(kept[m])}], "none", <<>>)
    /\ UNCHANGED warned

(* Sorted by blob and hash; of several hashes of a blob the first counts.  *)
SortedAsRead(chunks) == chunks
Precedes(a, b) == a.id < b.id \/ (a.id = b.id /\ a.hash < b.hash)
IsOrder(p, chunks) ==
    /\ Range(p) = DOMAIN chunks
    /\ \A i, j \in DOMAIN p : i < j => ~Precedes(chunks[p[j]], chunks[p[i]])
Sorted(chunks) ==
    LET order == CHOOSE p \in [DOMAIN chunks -> DOMAIN chunks] : IsOrder(p, chunks)
    IN  [i \in DOMAIN chunks |-> chunks[order[i]]]
Index(chunks) ==
    [id \in Range(IdsOf(chunks)) |-> chunks[SelectInSeq(chunks, LAMBDA c : c.id = id)].hash]
EndHashed ==
    /\ task = "hashed" /\ Reading
    /\ LET chunks(m) == Sorted(KeptNodes(m))
           dups == [m \in Modes |-> ~IsInjective(IdsOf(chunks(m)))]
       IN /\ Return([m \in Modes |-> IsStrict(m) /\ dups[m]],
                    [m \in Modes |-> Index(chunks(m))], "none", <<>>)
          /\ warned' = [m \in Modes |-> warned[m] \/ dups[m]]

EndNode ==
    /\ task = "node" /\ nodes # <<>> /\ Reading
    /\ Return([m \in Modes |-> FALSE], [m \in Modes |-> KeptNodes(m)], "none", <<>>)
    /\ UNCHANGED warned

(* Read, or refused in both modes.                                         *)
Stop == ~Reading /\ UNCHANGED vars

Next ==
    \/ ReadNode \/ EndRoot \/ EndSpace \/ EndRevisions
    \/ EndFiles \/ EndHashed \/ EndNode \/ Stop
Spec == Init /\ [][Next]_vars

-----------------------------------------------------------------------------

(* Whatever strict mode reads, tolerant mode reads, and with the same      *)
(* result: being tolerant never costs a node, an entry or an object space. *)
StrictImpliesTolerant ==
    alive["strict"] => alive["tolerant"] /\ value["strict"] = value["tolerant"]

(* The index of the file data store has, in both modes, the first typed    *)
(* reference to each object, whatever else stands in the list.             *)
FirstReferenceCounts ==
    task = "files" /\ ~open =>
        \A m \in Modes : alive[m] =>
            value[m][1] = {<<nodes[p].id, p>> : p \in
                {q \in DOMAIN nodes :
                    /\ nodes[q].type = "FileData"
                    /\ \A o \in 1..(q - 1) :
                         ~(nodes[o].type = "FileData" /\ nodes[o].id = nodes[q].id)}}

(* The index of hashed chunks depends on which chunks the list has, not on *)
(* their order: of several hashes of a blob it has the least.              *)
IndexIgnoresOrder ==
    task = "hashed" /\ ~open =>
        LET chunks == {node \in Range(nodes) : node.type = "Chunk"} IN
        \A m \in Modes : alive[m] =>
            value[m][1] = [id \in {c.id : c \in chunks} |->
                             Min({c.hash : c \in {d \in chunks : d.id = id}})]
=============================================================================
