------------------------------ MODULE DocumentTree ------------------------------
(***************************************************************************)
(* The tree of a document (onenote/parser.py) made of the nodes parse_node *)
(* returns, and the images whose data no reference leads to, which are     *)
(* given data of the file data store                                       *)
(* (_populate_missing_image_data_from_file_data_store).                    *)
(*                                                                         *)
(* The nodes are numbered from 1, below the section 0, so that each comes  *)
(* after its parent and after its siblings in front of it: the descent has *)
(* no other effect than to put them together.                              *)
(***************************************************************************)
EXTENDS Integers, Sequences, SequencesExt

CONSTANT
    Files      \* pairs of a tree, its nodes, and the store's pictures (tree, blobs)

(* The kinds of nodes; every other node is unknown.                        *)
Containers == {"Page", "Title", "Outline", "OutlineElement", "Table", "TableRow", "TableCell"}
Elements   == (Containers \ {"Page", "TableRow"}) \cup {"RichText", "Image", "File"}
NodeKinds  == Containers \cup Elements \cup {"PageSeries", "Unknown"}

(* Whether a text or a page's title is not blank, and a text's lines; of a *)
(* list item its format and restart; of an outline its place; of an image  *)
(* the number of its object and the ratio of its sides, 0 if unknown;      *)
(* whether a node has data itself, and what its references lead to.        *)
TreeNode ==
    [kind : NodeKinds, parent : Nat, list : {"children", "content"},
     text : BOOLEAN, lines : Nat, tags : Seq(STRING),
     format : [key : STRING, style : STRING, numbered : BOOLEAN], restart : Nat \cup {-1}, y : Nat,
     oid : [guid : Nat, n : Nat], ratio : Nat, data : BOOLEAN, refs : Seq(STRING)]
ASSUME NodesAreRecords ==
    \A f \in Files : f.tree \in Seq(TreeNode) /\ f.blobs \in Seq(Nat)

(* Texts, images and files have no nodes below them.                       *)
ASSUME NodesInOrder ==
    \A f \in Files : \A i \in DOMAIN f.tree :
        LET up == f.tree[i].parent IN
        /\ up \in 0..(i - 1)
        /\ up > 0 => f.tree[up].kind \in Containers \cup {"PageSeries", "Unknown"}
        /\ f.tree[i].list = "children" /\ up > 0 /\ f.tree[up].kind = "OutlineElement"
             => \A j \in 1..(i - 1) : f.tree[j].parent = up => f.tree[j].list = "children"

NoData == 0
Own    == -1   \* data: the node's own, or the number of a picture of the store

VARIABLES
    tree, blobs,   \* the input
    doing,         \* "convert", "fill", "load", "client", "pages", "build" or "done"
    at,            \* the node to be converted next
    kept,          \* the nodes that have an element
    children,      \* of an element, a page, a page series and the section
    contents,      \* of an outline element
    title,         \* title_element of a page, 0 if none
    data,          \* Image.data
    missing        \* images still without data, in the order of iter_images

treeVars == <<tree, blobs, doing, at, kept, children, contents, title, data, missing>>
Source == <<tree, blobs>>

Nodes == DOMAIN tree
(* Content right below an outline is wrapped in an outline element.        *)
Wrapper(i) == Len(tree) + i
Ids == 0..(2 * Len(tree))
Kind(x) ==
    IF x = 0 THEN "Section" ELSE IF x > Len(tree) THEN "OutlineElement" ELSE tree[x].kind

-----------------------------------------------------------------------------
TreeInit ==
    /\ \E file \in Files : tree = file.tree /\ blobs = file.blobs
    /\ doing = "convert" /\ at = 1
    /\ kept = {0}
    /\ children = [x \in Ids |-> <<>>] /\ contents = [x \in Ids |-> <<>>]
    /\ title = [x \in Ids |-> 0]
    /\ data = [x \in Ids |-> NoData]
    /\ missing = <<>>

(* What is converted below a node of a kind.                               *)
Takes(kind) ==
    CASE kind \in {"Section", "PageSeries"} -> {"PageSeries", "Page"}
      [] kind = "Table"    -> {"TableRow"}
      [] kind = "TableRow" -> {"TableCell"}
      [] kind \in Containers \ {"Table", "TableRow"} -> Elements
      [] OTHER -> {}

Converts(i) == tree[i].parent \in kept /\ tree[i].kind \in Takes(Kind(tree[i].parent))

PlaceByList(i) ==
    LET below == Kind(tree[i].parent) IN
    CASE below = "Page" /\ tree[i].kind = "Title" -> "title"
      [] below = "Outline" /\ tree[i].kind # "OutlineElement" -> "wrapper"
      [] below = "OutlineElement" /\ tree[i].list = "content" -> "contents"
      [] OTHER -> "children"
Place(i) ==
    LET below == Kind(tree[i].parent) IN
    CASE below = "Page" /\ tree[i].kind = "Title" -> "title"
      [] below = "Outline" /\ tree[i].kind # "OutlineElement" -> "wrapper"
      [] below = "OutlineElement" /\ (tree[i].list = "content" \/ tree[i].kind # "OutlineElement")
           -> "contents"
      [] OTHER -> "children"

Added(lists, x, y) == [lists EXCEPT ![x] = Append(@, y)]

(* An image's references must lead to a picture, a file's to any bytes.    *)
FileData(i) ==
    LET good == IF tree[i].kind = "Image" THEN {"picture"} ELSE {"picture", "bytes"} IN
    IF tree[i].data \/ \E k \in DOMAIN tree[i].refs : tree[i].refs[k] \in good THEN Own ELSE NoData

ConvertNode ==
    /\ doing = "convert" /\ at \in Nodes /\ Converts(at)
    /\ LET up == tree[at].parent IN
       /\ children' = CASE Place(at) = "children" -> Added(children, up, at)
                        [] Place(at) = "wrapper"  -> Added(children, up, Wrapper(at))
                        [] OTHER -> children
       /\ contents' = CASE Place(at) = "contents" -> Added(contents, up, at)
                        [] Place(at) = "wrapper"  -> Added(contents, Wrapper(at), at)
                        [] OTHER -> contents
       /\ title' = IF Place(at) = "title" THEN [title EXCEPT ![up] = at] ELSE title
    /\ data' = [data EXCEPT ![at] = IF tree[at].kind \in {"Image", "File"} THEN FileData(at) ELSE @]
    /\ kept' = kept \cup {at}
    /\ at' = at + 1
    /\ UNCHANGED <<Source, doing, missing>>

DropNode ==
    /\ doing = "convert" /\ at \in Nodes /\ ~Converts(at)
    /\ at' = at + 1
    /\ UNCHANGED <<Source, doing, kept, children, contents, title, data, missing>>

-----------------------------------------------------------------------------
(* The loops that copy some of the members of a list, or join the lists    *)
(* made of its members.                                                    *)
Only(seq, wanted) ==
    LET out[n \in 0..Len(seq)] ==
          IF n = 0 THEN <<>>
          ELSE IF seq[n] \in wanted THEN Append(out[n - 1], seq[n]) ELSE out[n - 1]
    IN  out[Len(seq)]
Joined(seq, f) ==
    LET out[n \in 0..Len(seq)] == IF n = 0 THEN <<>> ELSE out[n - 1] \o f[seq[n]]
    IN  out[Len(seq)]

(* The pages of a series take its place.                                   *)
Pages ==
    LET flat[x \in Ids] == IF Kind(x) = "Page" THEN <<x>> ELSE Joined(children[x], flat)
    IN flat[0]

(* _walk_elements: an element's children come before its contents.         *)
Walk ==
    LET walk[x \in Ids] == <<x>> \o Joined(children[x] \o contents[x], walk)
    IN Tail(walk[0])

EndConvert ==
    /\ doing = "convert" /\ at \notin Nodes
    /\ missing' = Only(Walk, {x \in Ids : Kind(x) = "Image" /\ data[x] = NoData})
    /\ doing' = IF missing' = <<>> \/ blobs = <<>> THEN "load" ELSE "fill"
    /\ UNCHANGED <<Source, at, kept, children, contents, title, data>>

Score(image, blob) ==
    IF 0 \in {tree[image].ratio, blobs[blob]} THEN 0
    ELSE IF tree[image].ratio > blobs[blob] THEN tree[image].ratio - blobs[blob]
    ELSE blobs[blob] - tree[image].ratio
Fits(image, blob) ==
    /\ \A b \in DOMAIN blobs : Score(image, blob) <= Score(image, b)
    /\ \A b \in 1..(blob - 1) : Score(image, blob) < Score(image, b)

(* Images are grouped by the guid of their id; the first one's shape       *)
(* decides, and no picture is used up.                                     *)
GroupAlone(image) == {image}
Group(image) == {x \in Range(missing) : tree[x].oid.guid = tree[image].oid.guid}

FillGroup ==
    /\ doing = "fill" /\ missing # <<>>
    /\ LET group == Group(Head(missing)) IN
       /\ \E blob \in DOMAIN blobs :
            /\ Fits(Head(missing), blob)
            /\ data' = [x \in Ids |-> IF x \in group THEN blob ELSE data[x]]
       /\ missing' = Only(missing, Ids \ group)
    /\ doing' = IF missing' = <<>> THEN "load" ELSE "fill"
    /\ UNCHANGED <<Source, at, kept, children, contents, title>>

TreeNext == ConvertNode \/ DropNode \/ EndConvert \/ FillGroup

-----------------------------------------------------------------------------
Images == Only(Walk, {x \in Ids : Kind(x) = "Image"})

(* Every image of an object shows the same picture, whatever its layout on *)
(* the page; if the store has any picture, no image on a page is without.  *)
ImagesShareData ==
    doing = "load" => \A i, j \in Range(Images) :
        /\ data[i] = NoData => blobs = <<>>
        /\ tree[i].oid = tree[j].oid /\ FileData(i) = FileData(j) => data[i] = data[j]

(* "Group missing images by underlying MS-ONE object id": the picture of   *)
(* an image is chosen by the shape of an image of that object.             *)
ImagesFitTheirObject ==
    doing = "load" => \A i \in Range(Images) : data[i] > 0 =>
        \E j \in Range(Images) : tree[j].oid = tree[i].oid /\ Fits(j, data[i])
=============================================================================
