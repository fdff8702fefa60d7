-------------------------------- MODULE PdfStory --------------------------------
(***************************************************************************)
(* The story PdfExporter makes of a document tree (onenote/pdf_export.py): *)
(* the flowables in their order, the numbers of list items (_ListState),   *)
(* the marker and the tag icons in front of a paragraph, and the split of  *)
(* paragraphs over the pages.  The calls that render an element inside     *)
(* another are the items of a stack.  Positions and styles are left out.   *)
(***************************************************************************)
EXTENDS DocumentTree

CONSTANT OptionSets   \* include_tags and include_images

VARIABLES
    options,
    page,     \* the page to be rendered next
    work,     \* the elements still to be rendered, the next one first
    lists,    \* the list states of the outlines around it, innermost first
    story,    \* flowables
    marks     \* what next_bullet was asked and has answered, of all outlines

storyVars == <<options, page, work, lists, story, marks>>

(* A format is a record: key, its printable characters; style, the code    *)
(* after the placeholder; numbered, whether it has a placeholder.          *)
NoFormat  == [key |-> "", style |-> "", numbered |-> FALSE]
NoRestart == -1
NoMarker  == [style |-> "none", digits |-> <<>>]
Bullet    == [style |-> "bullet", digits |-> <<>>]

StoryInit ==
    /\ options \in OptionSets
    /\ page = 1 /\ work = <<>> /\ lists = <<>> /\ story = <<>> /\ marks = <<>>

-----------------------------------------------------------------------------
(* _number_to_alpha and _number_to_roman: z is followed by aa.             *)
Alpha(n) ==
    LET alpha[m \in 0..n] == IF m = 0 THEN <<>> ELSE Append(alpha[(m - 1) \div 26], (m - 1) % 26)
    IN  alpha[n]
Tokens == {1000, 900, 500, 400, 100, 90, 50, 40, 10, 9, 5, 4, 1}
roman[n \in 0..3999] ==
    IF n = 0 THEN <<>>
    ELSE LET value == Max({t \in Tokens : t <= n}) IN <<value>> \o roman[n - value]

(* _format_list_number; n is never negative.                               *)
FormatNumber(n, style) ==
    CASE style = "alpha" -> Alpha(n)
      [] style = "roman" -> roman[Min({n, 3999})]
      [] OTHER -> <<n>>

(* _ListState: the counter and the format of every level.                  *)
Levels  == 0..Len(tree)
Unused  == [count |-> 0, key |-> ""]
NewList == [level \in Levels |-> Unused]
ResetFrom(list, from) == [level \in Levels |-> IF level >= from THEN Unused ELSE list[level]]

Item(elem) == IF elem > Len(tree) THEN NoFormat ELSE tree[elem].format
Restart(elem) == IF elem > Len(tree) THEN NoRestart ELSE tree[elem].restart

(* next_bullet: the count of the element; its place in the list state.     *)
Count(list, elem, level) ==
    IF Restart(elem) # NoRestart THEN Restart(elem)
    ELSE IF list[level].key = Item(elem).key THEN list[level].count + 1
    ELSE 1
NextListShallow(list, elem, level) ==
    LET format == Item(elem) IN
    IF format = NoFormat THEN ResetFrom(list, level)
    ELSE IF ~format.numbered THEN list
    ELSE [list EXCEPT ![level] = [count |-> Count(list, elem, level), key |-> format.key]]
NextList(list, elem, level) ==
    LET format == Item(elem) IN
    IF format = NoFormat THEN ResetFrom(list, level)
    ELSE IF ~format.numbered THEN ResetFrom(list, level + 1)
    ELSE [ResetFrom(list, level + 1) EXCEPT
            ![level] = [count |-> Count(list, elem, level), key |-> format.key]]
Marker(list, elem, level) ==
    LET format == Item(elem) IN
    IF format = NoFormat THEN NoMarker
    ELSE IF ~format.numbered THEN Bullet
    ELSE [style |-> format.style, digits |-> FormatNumber(Count(list, elem, level), format.style)]

-----------------------------------------------------------------------------
Tags(x) == IF x > Len(tree) \/ ~options.tags THEN <<>> ELSE tree[x].tags
Deduped(tags) ==
    LET out[n \in 0..Len(tags)] ==
          IF n = 0 THEN <<>>
          ELSE IF tags[n] \in Range(out[n - 1]) THEN out[n - 1] ELSE Append(out[n - 1], tags[n])
    IN  out[Len(tags)]

Flowable(what, id, marker, tags, lines) ==
    [what |-> what, id |-> id, marker |-> marker, tags |-> Deduped(tags), lines |-> lines]
Plain(what, id) == Flowable(what, id, NoMarker, <<>>, 1)
Icons(x) == IF Tags(x) = <<>> THEN <<>> ELSE <<Flowable("icons", x, NoMarker, Tags(x), 1)>>

Task(id, level, marker, tags) == [id |-> id, level |-> level, marker |-> marker, tags |-> tags]
EndTask == Task(0, 0, NoMarker, <<>>)
Tasks(seq, level) ==
    [i \in DOMAIN seq |-> Task(seq[i], level, NoMarker,
                               IF Kind(seq[i]) = "RichText" THEN Tags(seq[i]) ELSE <<>>)]

IsText(x)  == Kind(x) = "RichText" /\ tree[x].text
top        == Head(work)
Rendering(kind) == doing = "pages" /\ work # <<>> /\ top.id > 0 /\ Kind(top.id) = kind
Done(flowables) ==
    /\ story' = story \o flowables
    /\ work' = Tail(work)
    /\ UNCHANGED <<options, page, lists, marks>>

StartStory ==
    /\ doing' = "pages"
    /\ UNCHANGED <<Source, at, kept, children, contents, title, data, missing, storyVars>>

(* Outlines from top to bottom (those without a place last), then the rest.*)
ByPlace(seq) ==
    LET out[n \in 0..Len(seq)] ==
          IF n = 0 THEN <<>>
          ELSE LET placed == out[n - 1]
                   before == {k \in DOMAIN placed : tree[placed[k]].y <= tree[seq[n]].y}
               IN  InsertAt(placed, Cardinality(before) + 1, seq[n])
    IN  out[Len(seq)]
PageItems(p) ==
    LET outlines == {x \in Ids : Kind(x) = "Outline"} IN
    ByPlace(Only(children[p], outlines)) \o Only(children[p], Ids \ outlines)

RenderPage ==
    /\ doing = "pages" /\ work = <<>> /\ page <= Len(Pages)
    /\ LET p == Pages[page] IN
       /\ story' = story \o (IF page = 1 THEN <<>> ELSE <<Plain("break", p)>>)
                         \o (IF tree[p].text THEN <<Plain("heading", p)>> ELSE <<>>)
       /\ work' = Tasks(PageItems(p), 0)
    /\ page' = page + 1
    /\ UNCHANGED <<treeVars, options, lists, marks>>

RenderOutline ==
    /\ Rendering("Outline")
    /\ lists' = <<NewList>> \o lists
    /\ work' = Tasks(children[top.id], 0) \o <<EndTask>> \o Tail(work)
    /\ UNCHANGED <<treeVars, options, page, story, marks>>

EndOutline ==
    /\ doing = "pages" /\ work # <<>> /\ top = EndTask
    /\ lists' = Tail(lists)
    /\ work' = Tail(work)
    /\ UNCHANGED <<treeVars, options, page, story, marks>>

(* The marker and the tags of a list item stand in front of its first text *)
(* that is not blank; its other texts show no tags.                        *)
ItemTasks(elem, level, marker) ==
    LET seq    == contents[elem]
        first  == SelectInSeq(seq, IsText)
        tagged == SelectInSeq(seq, LAMBDA x : Kind(x) = "RichText" /\ Tags(x) # <<>>)
        tags   == Tags(elem) \o IF tagged = 0 THEN <<>> ELSE Tags(seq[tagged])
    IN [i \in DOMAIN seq |->
          IF Kind(seq[i]) # "RichText" THEN Task(seq[i], level, NoMarker, <<>>)
          ELSE IF i = first THEN Task(seq[i], level, marker, tags)
          ELSE Task(seq[i], level, NoMarker, <<>>)]

RenderElement ==
    /\ Rendering("OutlineElement")
    /\ LET elem   == top.id
           marker == IF lists = <<>> THEN NoMarker ELSE Marker(Head(lists), elem, top.level)
           items  == IF marker = NoMarker THEN Tasks(contents[elem], top.level)
                     ELSE ItemTasks(elem, top.level, marker)
       IN /\ work' = items \o Tasks(children[elem], top.level + 1) \o Tail(work)
          /\ IF lists = <<>> THEN UNCHANGED <<lists, marks>>
             ELSE /\ lists' = <<NextList(Head(lists), elem, top.level)>> \o Tail(lists)
                  /\ marks' = Append(marks, [id |-> elem, level |-> top.level,
                                             marker |-> marker])
    /\ UNCHANGED <<treeVars, options, page, story>>

RenderText ==
    /\ Rendering("RichText")
    /\ Done(IF tree[top.id].text
            THEN <<Flowable("text", top.id, top.marker, top.tags, tree[top.id].lines)>> ELSE <<>>)
    /\ UNCHANGED treeVars

(* An image without data is a placeholder; options may leave images out.   *)
RenderImage ==
    /\ Rendering("Image")
    /\ Done(IF options.images
            THEN Icons(top.id) \o <<Plain(IF data[top.id] = NoData THEN "words" ELSE "picture", top.id)>>
            ELSE <<>>)
    /\ UNCHANGED treeVars

RenderFile ==
    /\ Rendering("File")
    /\ Done(Icons(top.id) \o <<Plain("words", top.id)>>)
    /\ UNCHANGED treeVars

(* _get_cell_content: of an outline in a cell nothing is left, of a table  *)
(* in a cell a word.                                                       *)
CellContent ==
    LET add[x \in Ids] ==
        CASE Kind(x) = "OutlineElement" -> Joined(contents[x] \o children[x], add)
          [] Kind(x) = "RichText" -> IF tree[x].text THEN <<x>> ELSE <<>>
          [] Kind(x) = "Image"    -> IF options.images THEN <<x>> ELSE <<>>
          [] Kind(x) \in {"Table", "File"} -> <<x>>
          [] OTHER -> <<>>
    IN add

RenderTable ==
    /\ Rendering("Table")
    /\ LET rows  == children[top.id]
           cells == Joined(rows, children)
           inner == Joined(Joined(cells, children), CellContent)
           whats == [i \in DOMAIN inner |-> IF Kind(inner[i]) = "RichText" THEN "cell" ELSE "words"]
           parts == [i \in DOMAIN inner |->
                       Flowable(whats[i], inner[i], NoMarker,
                                IF whats[i] = "cell" THEN Tags(inner[i]) ELSE <<>>,
                                IF whats[i] = "cell" THEN tree[inner[i]].lines ELSE 1)]
       IN Done(IF rows = <<>> THEN <<>> ELSE Icons(top.id) \o parts)
    /\ UNCHANGED treeVars

(* No other element has a picture of its own.                              *)
PassElement ==
    /\ doing = "pages" /\ work # <<>> /\ top.id > 0
    /\ Kind(top.id) \in {"Title", "TableCell"}
    /\ Done(<<>>) /\ UNCHANGED treeVars

-----------------------------------------------------------------------------
EndStory ==
    /\ doing = "pages" /\ work = <<>> /\ page > Len(Pages)
    /\ doing' = "build"
    /\ UNCHANGED <<Source, at, kept, children, contents, title, data, missing, storyVars>>

(* A paragraph is split where a page ends, outside of tables; the marker   *)
(* and the icons stay with its first part.                                 *)
PartsMarked(f, lines) == <<[f EXCEPT !.lines = lines], [f EXCEPT !.lines = @ - lines]>>
Parts(f, lines) ==
    <<[f EXCEPT !.lines = lines],
      [f EXCEPT !.lines = @ - lines, !.marker = NoMarker, !.tags = <<>>]>>

Split ==
    /\ doing = "build"
    /\ \E i \in DOMAIN story : \E lines \in 1..(story[i].lines - 1) :
         /\ story[i].what = "text"
         /\ story' = SubSeq(story, 1, i - 1) \o Parts(story[i], lines) \o SubSeq(story, i + 1, Len(story))
    /\ UNCHANGED <<treeVars, options, page, work, lists, marks>>

Build ==
    /\ doing = "build"
    /\ doing' = "done"
    /\ UNCHANGED <<Source, at, kept, children, contents, title, data, missing, storyVars>>

StoryNext ==
    \/ RenderPage \/ RenderOutline \/ EndOutline \/ RenderElement
    \/ RenderText \/ RenderImage \/ RenderFile \/ RenderTable \/ PassElement
    \/ EndStory \/ Split \/ Build

-----------------------------------------------------------------------------
(* A node and the nodes it lies in.                                        *)
Path(i) ==
    LET path[x \in 0..Len(tree)] == IF x = 0 THEN {} ELSE {x} \cup path[tree[x].parent] IN path[i]
Texts == {i \in Nodes : IsText(i)}

(* What is not drawn: what lies in titles and in nodes the parser does not *)
(* know, in parts of tables outside a table, in outlines and tables inside *)
(* a cell.                                                                 *)
Visible(i) ==
    \A x \in Path(i) :
        LET up == Kind(tree[x].parent) IN
        /\ tree[x].kind \notin {"Title", "Unknown"}
        /\ tree[x].kind \in {"PageSeries", "Page"} <=> up \in {"Section", "PageSeries"}
        /\ tree[x].kind = "TableRow"  <=> up = "Table"
        /\ tree[x].kind = "TableCell" <=> up = "TableRow"
        /\ tree[x].kind \in {"Outline", "Table"} =>
             \A y \in Path(tree[x].parent) : tree[y].kind # "TableCell"

LinesDrawn(list, i) ==
    LET sum[n \in 0..Len(list)] ==
          IF n = 0 THEN 0
          ELSE IF list[n].id = i THEN sum[n - 1] + list[n].lines ELSE sum[n - 1]
    IN  sum[Len(list)]

(* The order of two nodes of one parent.                                   *)
Precedes(x, y) ==
    LET up == Kind(tree[x].parent)
        nested(z) == IF up = "Page" THEN tree[z].kind # "Outline"
                     ELSE up = "OutlineElement" /\ tree[z].kind = "OutlineElement"
                                               /\ tree[z].list = "children"
    IN \/ ~nested(x) /\ nested(y)
       \/ /\ nested(x) = nested(y)
          /\ IF up = "Page" /\ ~nested(x) /\ tree[x].y # tree[y].y
             THEN tree[x].y < tree[y].y ELSE x < y

(* Every text of the file that is to be seen is drawn once, all lines of   *)
(* it, wherever it was found, and the texts come in the order of the tree: *)
(* what an element holds before the elements under it, outlines from top   *)
(* to bottom.                                                              *)
DrawnOnceInOrder ==
    doing = "done" =>
        /\ \A i \in Texts : LinesDrawn(story, i) = IF Visible(i) THEN tree[i].lines ELSE 0
        /\ LET paths == [m \in DOMAIN story |->
                           IF story[m].id \in Texts THEN Path(story[m].id) ELSE {}]
           IN \A m \in DOMAIN story : \A n \in 1..(m - 1) :
                \A x \in paths[m], y \in paths[n] :
                  tree[x].parent = tree[y].parent => ~Precedes(x, y)

(* What a reader makes of a marker.                                        *)
ReadAs(digits, scale, shift) ==
    LET out[n \in 0..Len(digits)] ==
          IF n = 0 THEN 0 ELSE scale * out[n - 1] + digits[n] + shift
    IN  out[Len(digits)]
Value(marker) ==
    CASE marker.style = "alpha" -> ReadAs(marker.digits, 26, 1)
      [] marker.style = "roman" -> ReadAs(marker.digits, 1, 0)
      [] OTHER -> marker.digits[1]
Shows(marker, n) == Value(marker) = IF marker.style = "roman" THEN Min({n, 3999}) ELSE n

OutlineOf(elem) ==
    Max({x \in Path(IF elem > Len(tree) THEN tree[elem - Len(tree)].parent ELSE elem) :
           Kind(x) = "Outline"})

(* The numbers the k-th mark may go on from: those of its outline and      *)
(* level, unless an item further out or a paragraph of its own level, but  *)
(* not a bullet, lies between.                                             *)
Numbers(k) ==
    LET mates == {j \in 1..(k - 1) : OutlineOf(marks[j].id) = OutlineOf(marks[k].id)}
        ends  == {j \in mates : \/ marks[j].level < marks[k].level
                                \/ /\ marks[j].level = marks[k].level
                                   /\ Item(marks[j].id) = NoFormat}
    IN  {j \in mates : /\ marks[j].level = marks[k].level /\ Item(marks[j].id).numbered
                       /\ \A e \in ends : e < j}

(* The number in front of a list item is its restart value; 1, if there is *)
(* no number to go on from or the last one has another key; one more than  *)
(* the last one, if that has the same format, key and style; and reading   *)
(* the marker gives the number, if it is not a roman one above 3999.  Of a *)
(* change of the style alone it says nothing: FormatChangeRestarts does.   *)
NumbersCount ==
    \A k \in DOMAIN marks : Item(marks[k].id).numbered =>
        LET item   == Item(marks[k].id)
            marker == marks[k].marker
            last   == marks[Max(Numbers(k))]
        IN  IF Restart(marks[k].id) # NoRestart THEN Shows(marker, Restart(marks[k].id))
            ELSE IF Numbers(k) = {} \/ Item(last.id).key # item.key THEN Shows(marker, 1)
            ELSE Item(last.id) = item => Shows(marker, Value(last.marker) + 1)

(* An item whose format is not that of the number it would go on from, in  *)
(* the key or in the style, starts again with 1: the comment in            *)
(* next_bullet promises it.  The code compares the keys alone.             *)
FormatChangeRestarts ==
    \A k \in DOMAIN marks :
        /\ Item(marks[k].id).numbered /\ Restart(marks[k].id) = NoRestart
        /\ Numbers(k) # {} /\ Item(marks[Max(Numbers(k))].id) # Item(marks[k].id)
        => Shows(marks[k].marker, 1)

(* However paragraphs are split, a list item with text has its marker      *)
(* once, in front of its first line, and no icon is drawn twice in front   *)
(* of a text.                                                              *)
MarkersOnce ==
    doing \in {"build", "done"} =>
        /\ \A k \in DOMAIN marks :
             LET own   == {x \in Range(contents[marks[k].id]) : IsText(x)}
                 drawn == {i \in DOMAIN story : story[i].id \in own}
             IN marks[k].marker # NoMarker /\ own # {} =>
                  \E first \in drawn : \A i \in drawn :
                    i >= first /\ story[i].marker = IF i = first THEN marks[k].marker ELSE NoMarker
        /\ \A m, n \in DOMAIN story :
             /\ m # n /\ story[m].id = story[n].id
             => Range(story[m].tags) \cap Range(story[n].tags) = {}
        /\ \A m \in DOMAIN story : IsInjective(story[m].tags)
=============================================================================
