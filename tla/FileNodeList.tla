------------------------------ MODULE FileNodeList ------------------------------
(***************************************************************************)
(* parse_file_node_list[_with_raw] (onestore/file_node_list.py): the chain *)
(* of fragments of one file node list, each parsed by                      *)
(* FileNodeListFragment.parse, read up to the committed node count that    *)
(* the transaction log gives for the list.                                 *)
(*                                                                         *)
(* The bytes of a fragment are chosen when they are read.  The visited set *)
(* makes that the same as choosing the file beforehand: no place of the    *)
(* file is parsed twice.                                                   *)
(***************************************************************************)
EXTENDS Integers, Sequences

CONSTANTS
    FragmentPlaces, \* chunk references (stp, cb) that hold a fragment
    ListIds,        \* FileNodeListIDs
    NoList,         \* list_id is None
    MaxCommitted,   \* bound: committed counts
    MaxSlots,       \* bound: nodes of one fragment
    MaxFragments    \* fragments the loop reads at most (4096 in the code)

ASSUME NoListIsNoId == NoList \notin ListIds
ASSUME ChainBounds == {MaxCommitted, MaxSlots, MaxFragments} \subseteq Nat

VARIABLES
    committed,   \* last_count_by_list_id; 0: the list has no entry
    pc,          \* "open", "scan", "close", "done" or "failed"
    current,     \* the reference of the fragment being parsed
    visited,     \* the references parsed so far
    header,      \* FileNodeListHeader of the current fragment
    count,       \* node_count of the current fragment
    terminator,  \* found_chunk_terminator of the current fragment
    list_id,     \* the id of the first fragment, or NoList
    remaining,   \* remaining_nodes; 0: None, there is no limit (yet)
    fragments,   \* the accepted fragments: their headers and places
    returned,    \* the returned nodes: place and index of each
    failure      \* what OneStoreFormatError was raised for, or "none"

fragment  == <<current, visited, header, count, terminator>>
chain     == <<list_id, remaining, fragments, returned>>
chainVars == <<committed, pc, fragment, chain, failure>>

Header == [id : ListIds, seq : 0..MaxFragments]
FragmentInfo == [place : FragmentPlaces, id : ListIds, seq : 0..MaxFragments]
Node == FragmentPlaces \X (1..MaxSlots)

TypeOK ==
    /\ committed \in [ListIds -> 0..MaxCommitted]
    /\ pc \in {"open", "scan", "close", "done", "failed"}
    /\ current \in FragmentPlaces
    /\ visited \subseteq FragmentPlaces
    /\ header \in Header
    /\ count \in 0..MaxSlots
    /\ terminator \in BOOLEAN
    /\ list_id \in ListIds \cup {NoList}
    /\ remaining \in 0..MaxCommitted
    /\ fragments \in Seq(FragmentInfo)
    /\ Len(fragments) <= MaxFragments
    /\ returned \in Seq(Node)
    /\ failure \in {"none", "loop", "long", "chunk", "node", "fragment", "next"}

ChainInit ==
    /\ committed \in [ListIds -> 0..MaxCommitted]
    /\ pc = "open"
    /\ current \in FragmentPlaces
    /\ visited = {}
    /\ header \in Header
    /\ count = 0
    /\ terminator = FALSE
    /\ list_id = NoList
    /\ remaining = 0
    /\ fragments = <<>>
    /\ returned = <<>>
    /\ failure = "none"

Raise(reason) ==
    /\ pc' = "failed"
    /\ failure' = reason
    /\ UNCHANGED <<committed, fragment, chain>>

-----------------------------------------------------------------------------
(* FileNodeListFragment.parse                                              *)

OpenFragment ==
    /\ pc = "open"
    /\ Len(fragments) < MaxFragments
    /\ current \notin visited
    /\ visited' = visited \cup {current}
    /\ header' \in Header
    /\ count' = 0
    /\ terminator' = FALSE
    /\ pc' = "scan"
    /\ UNCHANGED <<committed, current, chain, failure>>

RejectLongChain == pc = "open" /\ Len(fragments) >= MaxFragments /\ Raise("long")

RejectLoop ==
    /\ pc = "open"
    /\ Len(fragments) < MaxFragments
    /\ current \in visited
    /\ Raise("loop")

(* The chunk is too small, or its header is wrong.                         *)
RejectChunk ==
    /\ pc = "open"
    /\ Len(fragments) < MaxFragments
    /\ current \notin visited
    /\ Raise("chunk")

(* remaining_nodes, as FileNodeListFragment.parse receives it, allows one  *)
(* more node.  It is None for the first fragment, whatever the log says.   *)
RoomAlways == TRUE
Room == remaining = 0 \/ count < remaining

ScanNode ==
    /\ pc = "scan" /\ Room
    /\ count < MaxSlots
    /\ count' = count + 1
    /\ UNCHANGED <<committed, pc, current, visited, header, terminator, chain, failure>>

ReadTerminator ==
    /\ pc = "scan" /\ Room
    /\ terminator' = TRUE
    /\ pc' = "close"
    /\ UNCHANGED <<committed, current, visited, header, count, chain, failure>>

(* A node with a size < 4, or over the end of the fragment, or with a      *)
(* CbFormat its BaseType forbids, or a terminator with data.               *)
RejectNode == pc = "scan" /\ Room /\ Raise("node")

(* Padding, the end of the node area, or no room for one more node.        *)
StopScan ==
    /\ pc = "scan"
    /\ pc' = "close"
    /\ UNCHANGED <<committed, fragment, chain, failure>>

-----------------------------------------------------------------------------
(* The rest of the loop of parse_file_node_list.                           *)

AcceptedBySequence == header.seq = Len(fragments)
Accepted ==
    /\ header.seq = Len(fragments)
    /\ list_id \in {NoList, header.id}

(* The footer is wrong, or the fragment is not the next one of this list.  *)
RejectFragment == pc = "close" /\ Raise("fragment")

(* The limit is looked up once the first fragment has been parsed.         *)
LimitForgotten == remaining
Limit == IF list_id = NoList THEN committed[header.id] ELSE remaining

NeverReached == FALSE
LimitReached == Limit > 0 /\ count >= Limit

AcceptFragment ==
    /\ list_id' = header.id
    /\ fragments' = Append(fragments,
                      [place |-> current, id |-> header.id, seq |-> header.seq])
    /\ returned' = returned \o [i \in 1..count |-> <<current, i>>]
    /\ remaining' = IF LimitReached \/ Limit = 0 THEN 0 ELSE Limit - count
    /\ UNCHANGED <<committed, visited, header, count, terminator, failure>>

(* The committed count is reached: nextFragment is ignored.                *)
StopAtLimit ==
    /\ pc = "close" /\ Accepted
    /\ LimitReached
    /\ AcceptFragment
    /\ pc' = "done"
    /\ UNCHANGED current

(* With or without a terminator a valid nextFragment is followed.          *)
FollowNext ==
    /\ pc = "close" /\ Accepted
    /\ ~LimitReached
    /\ AcceptFragment
    /\ current' \in FragmentPlaces
    /\ pc' = "open"

StopAtEnd ==
    /\ pc = "close" /\ Accepted
    /\ ~LimitReached
    /\ ~terminator
    /\ AcceptFragment
    /\ pc' = "done"
    /\ UNCHANGED current

(* nextFragment is outside the file, or missing after a terminator.        *)
RejectNext ==
    /\ pc = "close" /\ Accepted
    /\ ~LimitReached
    /\ Raise("next")

Stopped == pc \in {"done", "failed"} /\ UNCHANGED chainVars

ChainNext ==
    \/ OpenFragment \/ RejectLongChain \/ RejectLoop \/ RejectChunk
    \/ ScanNode \/ ReadTerminator \/ RejectNode \/ StopScan
    \/ RejectFragment
    \/ StopAtLimit \/ FollowNext \/ StopAtEnd \/ RejectNext
    \/ Stopped

ChainSpec == ChainInit /\ [][ChainNext]_chainVars

-----------------------------------------------------------------------------
(* The list is known and the transaction log limits it.                    *)
Limited == list_id # NoList /\ committed[list_id] > 0

(* The fragments read so far are one gap-free chain of one list, none of   *)
(* them read twice: parse_file_node_list never mixes two lists.            *)
OneChain ==
    /\ \A k \in 1..Len(fragments) :
         fragments[k].id = list_id /\ fragments[k].seq = k - 1
    /\ \A j, k \in 1..Len(fragments) :
         fragments[j].place = fragments[k].place => j = k

(* No more nodes are returned than the transaction log says are committed. *)
(* The documents and the docstring of parse_file_node_list promise it; the *)
(* code looks the count up only after it has read the first fragment.      *)
CommittedCountKept == Limited => Len(returned) <= committed[list_id]

(* A node returned from a fragment behind the first one is a committed     *)
(* one: what remains of the count is carried from fragment to fragment.    *)
LaterNodesCommitted ==
    Limited => \A k \in DOMAIN returned :
                 returned[k][1] # fragments[1].place => k <= committed[list_id]

(* After the first fragment a malformed node makes the parse fail only if  *)
(* it is a committed one: a torn tail of later fragments is not looked at. *)
TornTailIgnoredLater ==
    (Limited /\ failure = "node")
        => Len(returned) + count < committed[list_id]

=============================================================================
