------------------------------- MODULE MCNodeLists -------------------------------
(* NodeLists with two object spaces, guids or blobs and three hashes, and  *)
(* ManifestContent, beside FileNodeList: either the lists of a file are    *)
(* read, or one manifest, or the fragments of one list.                    *)
EXTENDS NodeLists, ManifestContent, FileNodeList

HashOf == [id \in Ids |-> id]

ListsIdle ==
    /\ task = "node" /\ open = FALSE /\ validate = FALSE /\ nodes = <<>> /\ todo = <<>>
    /\ kept = [m \in Modes |-> <<>>] /\ value = [m \in Modes |-> <<>>]
    /\ alive = [m \in Modes |-> TRUE] /\ warned = [m \in Modes |-> FALSE]
ContentIdle ==
    /\ kind = "one" /\ strict = TRUE /\ where = "done" /\ seen = <<>> /\ phase = "pre"
    /\ awaits = FALSE /\ groups = 0 /\ ended = FALSE /\ table = FALSE /\ roots = <<>>
    /\ changes = <<>> /\ overrides = 0 /\ reported = FALSE
    /\ sig = [group |-> NoSignature, manifest |-> NoSignature]

ChainIdle ==
    /\ committed = [i \in ListIds |-> 0] /\ pc = "done" /\ visited = {} /\ count = 0 /\ terminator = FALSE
    /\ current = CHOOSE place \in FragmentPlaces : TRUE
    /\ header = CHOOSE first \in Header : TRUE
    /\ list_id = NoList /\ remaining = 0 /\ fragments = <<>> /\ returned = <<>> /\ failure = "none"

FileInit == \/ Init /\ ContentIdle /\ ChainIdle
            \/ ListsIdle /\ ContentInit /\ ChainIdle
            \/ ListsIdle /\ ContentIdle /\ ChainInit
FileNext == \/ Next /\ UNCHANGED <<contentVars, chainVars>>
            \/ ContentNext /\ UNCHANGED <<vars, chainVars>>
            \/ ChainNext /\ UNCHANGED <<vars, contentVars>>
FileSpec == FileInit /\ [][FileNext]_<<vars, contentVars, chainVars>>

Symmetry == Permutations(Signatures)
=============================================================================
