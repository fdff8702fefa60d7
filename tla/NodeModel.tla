-------------------------------- MODULE NodeModel --------------------------------
(***************************************************************************)
(* The public document object model (aspose/note/model.py): the nodes made *)
(* of a document tree when a Document is loaded, and what a client does to *)
(* them with the methods of CompositeNode.  Nodes refer to their children  *)
(* and to their parent, and each method keeps one of the two up to date at *)
(* one place only.  Save draws the tree that was loaded, not the nodes.    *)
(***************************************************************************)
EXTENDS PdfStory

CONSTANT MaxEdits   \* edits of a client before it saves

VARIABLES
    nodes,      \* _children of each node
    parent,     \* ParentNode
    shared,     \* nodes a deep clone lists too
    detached,   \* nodes that were removed
    strayed,    \* a removal took a sibling equal to the node to be removed
    edits

domVars == <<nodes, parent, shared, detached, strayed, edits>>

(* Nodes have the numbers of their elements, 0 is the Document; a page has *)
(* a node for its title and one for the title's text, and a clone.         *)
Size         == 2 * Len(tree)
TitleOf(p)   == Size + p
TitleText(p) == Size + Len(tree) + p
CloneOf(p)   == Size + Size + p
NodeIds      == 0..(Size + Size + Len(tree))
NoNode       == -1
Class(x) ==
    IF x <= Size THEN Kind(x)
    ELSE IF x <= Size + Len(tree) THEN "Title" ELSE IF x <= Size + Size THEN "RichText" ELSE "Page"

DomInit ==
    /\ nodes = <<>> /\ parent = <<>>
    /\ shared = {} /\ detached = {} /\ strayed = FALSE /\ edits = 0

-----------------------------------------------------------------------------
(* _convert_page, _convert_element: an outline element's contents come     *)
(* before its children; titles, and cells outside a row, are left out.     *)
(* Every page gets a title of its own, with the page's title for its text. *)
Loadable(x, seq) ==
    Only(seq, {y \in Ids : /\ Kind(y) # "Title"
                           /\ Kind(y) = "TableCell" => Kind(x) = "TableRow"})
LoadedUntitled ==
    [x \in NodeIds |->
       IF x = 0 THEN Pages
       ELSE IF x > Size
       THEN IF Class(x) = "Title" /\ Kind(x - Size) = "Page" THEN <<TitleText(x - Size)>> ELSE <<>>
       ELSE IF Kind(x) = "Page" THEN Loadable(x, children[x])
       ELSE IF Kind(x) \in {"Section", "PageSeries", "Title"} THEN <<>>
       ELSE Loadable(x, contents[x] \o children[x])]
Loaded ==
    [x \in NodeIds |->
       IF x = 0 THEN Pages
       ELSE IF x > Size
       THEN IF Class(x) = "Title" /\ Kind(x - Size) = "Page" THEN <<TitleText(x - Size)>> ELSE <<>>
       ELSE IF Kind(x) = "Page" THEN <<TitleOf(x)>> \o Loadable(x, children[x])
       ELSE IF Kind(x) \in {"Section", "PageSeries", "Title"} THEN <<>>
       ELSE Loadable(x, contents[x] \o children[x])]

Load ==
    /\ doing = "load"
    /\ nodes' = Loaded
    /\ LET below == [y \in NodeIds |-> Range(nodes'[y])] IN
       parent' = [x \in NodeIds |-> IF \E y \in NodeIds : x \in below[y]
                                    THEN CHOOSE y \in NodeIds : x \in below[y] ELSE NoNode]
    /\ doing' = "client"
    /\ UNCHANGED <<Source, at, kept, children, contents, title, data, missing,
                   storyVars, shared, detached, strayed, edits>>

-----------------------------------------------------------------------------
(* Node.Document walks up to the root; no way is longer than the number of *)
(* nodes.                                                                  *)
Height   == 5 * Len(tree) + 1
Above(x) ==
    LET way[n \in 0..Height] ==
          IF n = 0 THEN {x}
          ELSE LET passed == way[n - 1] IN passed \cup {parent[y] : y \in passed \ {NoNode}}
    IN  way[Height]
InDocument ==
    LET below[n \in 0..Height] ==
          IF n = 0 THEN {0}
          ELSE LET found == below[n - 1] IN found \cup {y \in NodeIds : parent[y] \in found}
    IN  below[Height]
Listed(x) == \E y \in NodeIds : x \in Range(nodes[y])

Edit == doing = "client" /\ edits < MaxEdits /\ edits' = edits + 1
Rest == UNCHANGED <<treeVars, storyVars>>

(* AppendChildLast, AppendChildFirst and InsertChild.  A client inserts    *)
(* what it has removed, and only into the document.                        *)
InsertedQuietly(list, place, node) ==
    /\ nodes' = [nodes EXCEPT ![list] = InsertAt(@, place, node)]
    /\ UNCHANGED parent
Inserted(list, place, node) ==
    /\ nodes' = [nodes EXCEPT ![list] = InsertAt(@, place, node)]
    /\ parent' = [parent EXCEPT ![node] = list]

InsertChild ==
    /\ Edit
    /\ \E node \in detached : \E list \in InDocument :
         /\ parent[node] = NoNode /\ ~Listed(node)
         /\ \E place \in 1..(Len(nodes[list]) + 1) : Inserted(list, place, node)
    /\ UNCHANGED <<shared, detached, strayed>> /\ Rest

(* list.remove takes the first child equal to the node.  Dataclasses are   *)
(* compared field by field: parents first, then children, and to compare   *)
(* children asks for their parents again and does not end; so it is with   *)
(* pages, whose titles are compared.  A cloned page differs from one that  *)
(* is not: its children name the clone, which is in no document.           *)
Fields(x) ==
    CASE x > Size -> <<x>>
      [] Kind(x) = "OutlineElement" ->
           <<Item(x), Restart(x), IF x > Len(tree) THEN <<>> ELSE tree[x].tags>>
      [] OTHER -> <<tree[x].text, tree[x].lines, tree[x].tags, tree[x].y, tree[x].ratio, data[x]>>
Alike(x, y) ==
    /\ Class(x) = Class(y) /\ parent[x] = parent[y] /\ Len(nodes[x]) = Len(nodes[y])
    /\ IF nodes[x] # <<>> THEN /\ Class(nodes[x][1]) = Class(nodes[y][1])
                               /\ parent[nodes[x][1]] = x <=> parent[nodes[y][1]] = y
       ELSE Class(x) = "Page" \/ Fields(x) = Fields(y)
Endless(x) == nodes[x] # <<>> \/ Class(x) = "Page"

Removed(list, place, node) ==
    /\ nodes' = [nodes EXCEPT ![list] = RemoveAt(@, place)]
    /\ parent' = [parent EXCEPT ![node] = NoNode]

RemoveChild ==
    /\ Edit
    /\ \E list \in InDocument : \E node \in Range(nodes[list]) :
         LET equal == Min({i \in DOMAIN nodes[list] :
                             nodes[list][i] = node \/ Alike(nodes[list][i], node)})
             child == nodes[list][equal]
         IN IF child # node /\ Endless(child)
            THEN UNCHANGED <<nodes, parent, detached, strayed>>    \* RecursionError
            ELSE /\ Removed(list, equal, node)
                 /\ detached' = detached \cup {node}
                 /\ strayed' = (strayed \/ child # node)
    /\ UNCHANGED shared /\ Rest

(* Page.Clone(deep=True), the clone not being put into the document: the   *)
(* page still lists its children, who take the clone for their parent.     *)
ClonePage ==
    /\ Edit
    /\ \E p \in Range(nodes[0]) :
         /\ Class(p) = "Page" /\ p \in Nodes /\ nodes[CloneOf(p)] = <<>>
         /\ nodes' = [nodes EXCEPT ![CloneOf(p)] = nodes[p]]
         /\ parent' = [x \in NodeIds |-> IF x \in Range(nodes[p]) THEN CloneOf(p) ELSE parent[x]]
         /\ shared' = shared \cup Range(nodes[p])
    /\ UNCHANGED <<detached, strayed>> /\ Rest

Save ==
    /\ doing = "client"
    /\ StartStory
    /\ UNCHANGED domVars

DomNext == Load \/ InsertChild \/ RemoveChild \/ ClonePage \/ Save

(* The whole way of a document.                                            *)
documentVars == <<treeVars, storyVars, domVars>>
DocumentInit == TreeInit /\ StoryInit /\ DomInit
DocumentNext ==
    \/ TreeNext /\ UNCHANGED <<storyVars, domVars>>
    \/ StoryNext /\ UNCHANGED domVars
    \/ DomNext
    \/ doing = "done" /\ UNCHANGED documentVars
DocumentSpec == DocumentInit /\ [][DocumentNext]_documentVars

-----------------------------------------------------------------------------
(* As long as no removal has taken the wrong node: a node of no clone is a *)
(* child of its parent, once, and of no other node, and the way up ends.   *)
NodesFormTree ==
    doing = "client" /\ ~strayed =>
        /\ \A x \in NodeIds :
             /\ NoNode \in Above(x)
             /\ parent[x] # NoNode /\ x \notin shared => x \in Range(nodes[parent[x]])
        /\ \A y \in NodeIds :
             /\ \A x \in Range(nodes[y]) \ shared : parent[x] = y
             /\ IsInjective(nodes[y])

(* The nodes that show an element.  A page is drawn as its heading.        *)
ShownBy(x) == IF Kind(x) = "Page" THEN {x, TitleOf(x), TitleText(x)} ELSE {x}

(* What a document draws its nodes show: each text, picture and file of    *)
(* the story is a node under the Document before a client edits it, listed *)
(* by its parent, and a heading is the text in the title of its page.      *)
DrawnIsInDocument ==
    doing = "done" /\ edits = 0 =>
        \A i \in DOMAIN story : story[i].what # "break" =>
            LET x == story[i].id IN
            /\ \A y \in ShownBy(x) : y \in InDocument /\ y \in Range(nodes[parent[y]])
            /\ Kind(x) = "Page" => parent[TitleText(x)] = TitleOf(x) /\ parent[TitleOf(x)] = x
=============================================================================
