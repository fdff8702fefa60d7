------------------------------- MODULE MCDocument -------------------------------
(* A document from the nodes of its file to its nodes and its PDF.         *)
EXTENDS NodeModel

Default == [kind |-> "Page", parent |-> 0, list |-> "children", text |-> TRUE, lines |-> 1, tags |-> <<>>,
            format |-> NoFormat, restart |-> NoRestart, y |-> 0,
            oid |-> [guid |-> 0, n |-> 0], ratio |-> 0, data |-> FALSE, refs |-> <<>>]
Node(kind, up) == [Default EXCEPT !.kind = kind, !.parent = up]
Content(kind, up) == [Node(kind, up) EXCEPT !.list = "content"]

(* Trees grown by a node at a time, parents in order.                      *)
Kinds == Elements \cup {"TableRow", "Unknown"}
Allowed(t, node, up) ==
    LET kind == t[up].kind IN
    /\ kind \in Containers
    /\ kind = "Table" => node.kind = "TableRow"
    /\ kind = "TableRow" => node.kind = "TableCell"
    /\ node.list = "content" => kind = "OutlineElement"
    /\ node.list = "children" => \A i \in DOMAIN t : t[i].parent = up => t[i].list = "children"
Grown(trees, kinds) ==
    LET every == {Node(k, 0) : k \in kinds} \cup {Content(k, 0) : k \in kinds}
        new   == {g \in trees \X every \X (1..8) :
                    g[3] \in Max({1, Last(g[1]).parent})..Len(g[1]) /\ Allowed(g[1], g[2], g[3])}
    IN {Append(g[1], [g[2] EXCEPT !.parent = g[3]]) : g \in new}

Stem     == <<Node("Page", 0)>>
CellStem == <<Node("Page", 0), Node("Outline", 1), Node("OutlineElement", 2), Content("Table", 3),
              Node("TableRow", 4), Node("TableCell", 5)>>
Twice    == Grown(Grown({Stem}, Kinds), Kinds)
Shapes   == Grown(Twice, Kinds) \cup Grown(Grown({CellStem}, Elements \cup {"Unknown"}), Elements)
Deep     == {Append(t, Node("RichText", Len(t))) :
               t \in {s \in Grown(Twice, Containers) : s[4].kind \notin {"Table", "TableRow"}}}

(* Lists: elements at any depth, each with a text.                         *)
A == [key |-> "#.", style |-> "decimal", numbered |-> TRUE]
B == [key |-> "#)", style |-> "alpha", numbered |-> TRUE]
R == [key |-> "#.", style |-> "roman", numbered |-> TRUE]
Dot == [key |-> "*", style |-> "", numbered |-> FALSE]
Entry(format, restart) == [Node("OutlineElement", 2) EXCEPT !.format = format, !.restart = restart,
                                                           !.tags = <<"todo">>]
Simple  == {Entry(NoFormat, NoRestart), Entry(Dot, NoRestart), Entry(A, NoRestart)}
Entries == Simple \cup {Entry(B, NoRestart), Entry(R, 3), Entry(B, 26)}
Text(up, lines) == [Content("RichText", up) EXCEPT !.tags = <<"todo", "star">>, !.lines = lines]
List(ups, entries) ==
    Stem \o <<Node("Outline", 1)>>
      \o [i \in DOMAIN ups |-> [entries[i] EXCEPT !.parent = ups[i]]]
      \o [i \in DOMAIN ups |-> [Text(i + 2, 1) EXCEPT !.text = i # 4]]
(* Items with an outline between them.                                     *)
Apart(entries) ==
    LET inner == [Entry(A, NoRestart) EXCEPT !.parent = 4] IN
    Stem \o <<Node("Outline", 1), entries[1], Node("Outline", 2), inner, entries[2],
              Text(3, 1), Text(5, 1), Text(6, 1)>>
Lists ==
    {List(<<2, 2, 3, 4>>, e) : e \in [1..4 -> Entries]} \cup
    {List(<<2, 3, 2, 2>>, e) : e \in [1..4 -> Entries \ {Entry(Dot, NoRestart), Entry(B, 26)}]} \cup
    {List(<<2, 2, 2, 2>>, e) : e \in [1..4 -> {Entry(R, 3998), Entry(R, NoRestart), Entry(A, NoRestart)}]} \cup
    {Apart(e) : e \in [1..2 -> Entries]} \cup
    {List(<<2, 2, 3, 2, 4>>, e) \o <<Text(3, 3), Text(4, 2)>> : e \in [1..5 -> Simple]}

(* Images of two objects and a third one under the same guid.              *)
Picture(g, n, r, refs) ==
    [Node("Image", 1) EXCEPT !.oid = [guid |-> g, n |-> n], !.ratio = r, !.refs = refs, !.tags = <<"todo", "todo">>]
Pictures == {Picture(1, n, r, <<>>) : n \in {1, 2}, r \in {0, 1, 3}}
              \cup {Picture(2, 1, 3, <<>>), Picture(1, 1, 1, <<"bytes", "picture">>), Picture(1, 3, 1, <<"bytes">>)}
Albums == {Stem \o <<Node("Outline", 1), p[1], [p[2] EXCEPT !.parent = 2], p[3]>> : p \in [1..3 -> Pictures]}

(* Two series of pages, outlines out of order; documents to be edited.     *)
Placed(y) == [Node("Outline", 3) EXCEPT !.y = y]
Books ==
    {<<Node("PageSeries", 0), Node("Page", 0), [Node("Page", 1) EXCEPT !.text = FALSE],
       Placed(a), Placed(b), Node("RichText", 3), Node("OutlineElement", 4), Node("RichText", 5),
       Content("RichText", 7), [Content("File", 7) EXCEPT !.tags = <<"star">>]>> : a, b \in 0..2}
Drafts ==
    {<<Node("Page", 0), Node("Outline", 1), Node("OutlineElement", 2)>>,
     <<Node("Page", 0), Node("Page", 0)>>,
     <<Node("Page", 0), Node("RichText", 1), Node("RichText", 1), Node("Outline", 1)>>}

(* Only albums are given pictures, only books other options, only drafts   *)
(* are edited.                                                             *)
MCBlobs == {<<>>, <<1, 3>>, <<0, 2>>, <<2, 0>>}
MCFiles ==
    [tree : Albums, blobs : MCBlobs] \cup
    [tree : Shapes \cup Deep \cup Lists \cup Books \cup Drafts, blobs : {<<>>}]
On == [tags |-> TRUE, images |-> TRUE]
MCOptions == [tags : BOOLEAN, images : BOOLEAN]

MCInit == DocumentInit /\ (options = On \/ tree \in Books)
MCNext == DocumentNext /\ (edits' = 0 \/ tree \in Drafts)
MCSpec == MCInit /\ [][MCNext]_documentVars
=============================================================================
