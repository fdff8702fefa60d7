-------------------------------- MODULE GraphWalk --------------------------------
(***************************************************************************)
(* The bounded walks over the references between objects that look for the *)
(* data of an image or a file (ms_one/entities/parsers.py):                *)
(*   "guids"   - _resolve_file_data_store_guids_via_references,            *)
(*   "names"   - _resolve_file_names_via_references,                       *)
(*   "picture" - _resolve_picture_container_payload.                       *)
(* What is found in the properties of an object is a payload of some size: *)
(* a guid or a name counts if there is any, of pictures the largest wins.  *)
(***************************************************************************)
EXTENDS Integers, Sequences, SequencesExt

CONSTANTS
    Objects,       \* objects; Top is the record the walk is for
    Top,
    NoObject,
    References,    \* the sequences of references an object can have
    Payloads,      \* the sizes of the payloads of all objects, 0: none
    Indexes,       \* the objects that have a record and properties
    max_depth,
    max_nodes

ASSUME TopIsObject == Top \in Objects /\ NoObject \notin Objects
ASSUME ReferencesAreObjects == References \subseteq Seq(Objects)
ASSUME WalkBounds == {max_depth, max_nodes} \subseteq Nat \ {0}
ASSUME PayloadsHaveSizes == Payloads \subseteq [Objects -> Nat]
ASSUME TopIsIndexed == \A index \in Indexes : Top \in index

Kinds == {"guids", "names", "picture"}

VARIABLES
    kind,      \* the walk
    hasIndex,  \* the file has a file data store index
    indexed,   \* the objects with a record and properties
    refs,      \* the references in the properties of an object, in order
    payload,   \* the payload in them
    walking,
    queue,     \* pairs of an object and its depth
    visited,
    steps,
    found,     \* the objects whose payload is part of the result
    largest    \* the object of the largest picture

graph    == <<kind, hasIndex, indexed, refs, payload>>
walkVars == <<graph, walking, queue, visited, steps, found, largest>>

RefsOf(object) == IF object \in indexed THEN refs[object] ELSE <<>>
At(seq, depth) == [i \in DOMAIN seq |-> <<seq[i], depth>>]

(* Guids and names found on the record itself make the walk needless; a    *)
(* picture starts at the first object the record refers to.                *)
Local == kind # "picture" /\ payload[Top] > 0
Seeds ==
    IF kind = "picture" /\ refs[Top] # <<>> THEN <<Head(refs[Top])>> ELSE refs[Top]

WalkInit ==
    /\ kind \in Kinds
    /\ hasIndex \in BOOLEAN
    /\ indexed \in Indexes
    /\ refs \in [Objects -> References]
    /\ payload \in Payloads
    /\ walking = ~(Local \/ (kind = "guids" /\ ~hasIndex))
    /\ queue = IF walking THEN At(Seeds, 1) ELSE <<>>
    /\ visited = {}
    /\ steps = 0
    /\ found = IF Local THEN {Top} ELSE {}
    /\ largest = NoObject

-----------------------------------------------------------------------------
(* The loop over the references of an object, which appends the new ones.  *)
Unvisited(seq, seen) ==
    LET new[n \in 0..Len(seq)] ==
          IF n = 0 THEN <<>>
          ELSE IF seq[n] \in seen THEN new[n - 1] ELSE Append(new[n - 1], seq[n])
    IN  new[Len(seq)]

(* References are put behind all others: nearer objects come first.        *)
EnqueuedFirst(new) == new \o Tail(queue)
Enqueued(new) == Tail(queue) \o new

Larger(object) ==
    payload[object] > IF largest = NoObject THEN 0 ELSE payload[largest]

Stepping == walking /\ queue # <<>> /\ steps < max_nodes
object == Head(queue)[1]
depth  == Head(queue)[2]

(* Every turn counts, that for an object seen before too.                  *)
PassVisited ==
    /\ Stepping /\ object \in visited
    /\ queue' = Tail(queue) /\ steps' = steps + 1
    /\ UNCHANGED <<graph, walking, visited, found, largest>>

PassUnknown ==
    /\ Stepping /\ object \notin visited /\ object \notin indexed
    /\ queue' = Tail(queue) /\ steps' = steps + 1
    /\ visited' = visited \cup {object}
    /\ UNCHANGED <<graph, walking, found, largest>>

Visit ==
    /\ Stepping /\ object \in indexed \ visited
    /\ steps' = steps + 1
    /\ visited' = visited \cup {object}
    /\ IF kind = "picture"
       THEN largest' = (IF Larger(object) THEN object ELSE largest) /\ UNCHANGED found
       ELSE found' = (IF payload[object] > 0 THEN found \cup {object} ELSE found) /\ UNCHANGED largest
    /\ LET new == Unvisited(refs[object], visited')
       IN queue' = IF depth >= max_depth THEN Tail(queue) ELSE Enqueued(At(new, depth + 1))
    /\ UNCHANGED <<graph, walking>>

EndWalk ==
    /\ walking /\ (queue = <<>> \/ steps = max_nodes)
    /\ walking' = FALSE
    /\ UNCHANGED <<graph, queue, visited, steps, found, largest>>

WalkStop == ~walking /\ UNCHANGED walkVars

WalkNext == PassVisited \/ PassUnknown \/ Visit \/ EndWalk \/ WalkStop
WalkSpec == WalkInit /\ [][WalkNext]_walkVars

-----------------------------------------------------------------------------
(* What lies within a distance of the record.                              *)
Within(seeds, next) ==
    LET within[n \in Nat] ==
          IF n = 0 THEN {}
          ELSE IF n = 1 THEN seeds
          ELSE within[n - 1] \cup UNION {next[o] : o \in within[n - 1]}
    IN  within
Distance  == Within(Range(Seeds), [o \in Objects |-> Range(RefsOf(o))])
Reachable == Distance[max_depth] \cap indexed
Holding   == {o \in Reachable : payload[o] > 0}

(* A walk the bound on its steps does not cut off finds everything the     *)
(* bound on its depth allows: all the guids and names, the largest of the  *)
(* pictures; and no walk finds anything else.                              *)
WalkFindsReachable ==
    ~walking /\ ~Local /\ (kind = "guids" => hasIndex) =>
        /\ found \subseteq Holding /\ largest \in Holding \cup {NoObject}
        /\ queue = <<>> =>
             IF kind # "picture" THEN found = Holding
             ELSE /\ largest = NoObject <=> Holding = {}
                  /\ \A o \in Holding : payload[largest] >= payload[o]
=============================================================================
