# Verification of Aspose.Note FOSS for Python

TLA+ models of the reader of OneNote files (`src/aspose/note` of the repository),
checked with TLC and, in part, proved with TLAPS. Line numbers and quotes are in
`PROJECT.json` (`map`, `findings`, `hazards`).

## 1. Inventory

The program is a sequential Python library: it maps the bytes of a `.one` file to a
tree of pages, outlines and texts, and writes that tree as PDF. Nothing runs
concurrently and nothing is written back to the file. What makes it hard is what it
reads: a revision store. The file is a log that another program appends to. That
program may stop at any time, so a reader must tell committed from uncommitted data;
data is split over chains of fragments that refer to each other by position; objects
are changed by later revisions, and each revision names objects by short ids that
mean something only together with a table that is itself given relative to the table
of another revision. Results of one loop are the context of the next, three layers
deep, and every step has a strict and a tolerant form (`ParseContext.strict`; the
public `Document` is tolerant).

| Part (source under `src/src/aspose/note/`) | State it keeps | Operations | Needed for it to be correct |
|---|---|---|---|
| transaction log, `_internal/onestore/txn_log.py` | counts of the open and of the closed transactions, closed transactions, position in the fragment chain | read entry, close transaction, follow chain, stop | exactly the committed counts; nothing behind the limit is read; it ends |
| file node lists, `onestore/file_node_list.py` | visited fragments, list id, remaining committed nodes, nodes | parse fragment (node, terminator, end), accept, follow | one gap-free chain of one list, no fragment twice, committed nodes only |
| header, chunk references, bounded reader: `onestore/header.py`, `chunk_refs.py`, `io.py`, `common_types.py` | cursor and bounds of a view | read, seek, sub-view, check reference | cursor in bounds, a nil reference is never followed |
| file nodes, `onestore/file_node_core.py`, `file_node_types.py` | none | decode | round trip of bit fields |
| root file node list, object space lists, `onestore/file_node_types.py`, `object_space.py` | root space, spaces seen, key groups | order checks, loop over spaces | exactly one root, each space once |
| revision manifest list, `onestore/object_space.py` | started ids, open manifest, revisions, role assignments | start, end, assign, marker | dependencies precede, assignments resolve, encryption uniform |
| revision manifest content, `onestore/object_space.py` | phase, groups, table, roots, signature group | one per node kind | order of groups, table and roots |
| global id tables, `onestore/object_space.py` | entries, indices taken, table | parse entry, add, copy | a bijection that holds what the sequence says |
| object groups and index, `onestore/object_space.py`, `ms_one/object_index.py` | tables of the revision and of the group, index | two walks over the same lists | both resolve alike; the index is the replay of the changes |
| default revision, roots, `ms_one/reader.py` | none | pick revision, chain, roots | the view replays what is assigned, from a complete chain |
| section reader and page history, `ms_one/reader.py` | pages by object space | collect pages, history | every page once, history in order |
| file data store, hashed chunks, `onestore/file_data.py`, `hashed_chunk_list.py` | index by GUID, index by MD5 | build, look up | last or first wins consistently, bounds of a blob |
| object data, `onestore/object_data.py`, `ms_one/property_access.py` | three id streams | decode | every property takes its own ids |
| entity parsers, `ms_one/entities/` | queue and visited objects of a walk, runs and field spans of a text, the children found so far | cut text into runs, infer links, walk references, choose and expand children, embed objects, pass tags on | runs tile the text, fields are links; a walk finds all in its reach; no child is lost or doubled |
| internal tree, `onenote/parser.py`, `document.py`, `elements.py` | elements, their children and contents, pictures of images | convert, wrap, drop, fill images without data | nothing visible is lost; the images of an object share a picture |
| public DOM, `model.py` | children and parent of each node | load, append, insert, remove, clone, save | parent and child agree; the nodes show what is drawn |
| saving, PDF, `saving/`, `onenote/pdf_export.py` | list counters by level, flowables | render page, outline, element, text, image, table, file; number; split | every text once and in order; numbers count; markers once |

Interactions are calls and values. `parse_section_file` calls the object space loop
(which calls the lists, which use the counts of the log), then builds an index for
each object space and hands it to the entity parsers; `model.Document` turns the
internal tree and that into nodes, and `Save` hands the internal tree (not the nodes) to
the PDF exporter. Shared between the parts are: the counts by list id (from the log
to every list parser), the tables by revision id (from a revision to those that
depend on it), and the object index.

The hard behaviours, listed line by line as `hazards`:

- *crash recovery*: an uncommitted transaction, a torn fragment behind the committed
  nodes, a revision list that is a prefix of what was meant;
- *ordering*: assignments before and after revisions, interleaved contexts, replay of
  changes over several revisions, direct and copied entries in one table;
- *stale state*: the limit of a list that is looked up too late, the table of a group
  that outlives it, two walks that must agree, roots and objects taken from different
  revisions;
- *partial failure*: what a tolerant parser leaves out, and what depends on it;
- *liveness*: chains of references that form a cycle;
- *order of choices*: children that hide in unexpected properties, pictures given to
  images by shape, list numbers that later items change;
- *boundaries*: the last entry before a sentinel, the last index of a range, limits.

## 2. Modules

| Module | Models | Built on |
|---|---|---|
| `CommittedView` | the promise of the log: whole transactions are applied at once | |
| `TxnLog` | `parse_transaction_log`, `TransactionLogFragment.parse` | refines `CommittedView` |
| `TxnLogHistory` | `TxnLog` with a history variable: what has been read; a reference definition over the whole log | `TxnLog` |
| `FileNodeList` | `parse_file_node_list[_with_raw]`, `FileNodeListFragment.parse` | |
| `TypedNodes` | what the parser of each type of file node demands (`file_node_types.py`) | |
| `NodeLists` | root list, object space lists, file data store list, hashed chunk list | `TypedNodes` |
| `RevisionManifestList` | `_parse_revision_manifest_list_revisions`, the encryption check | |
| `ManifestContent` | `_parse_revision_manifest_content`, `_parse_object_group_list` | |
| `RevisionSelection` | default revision, chain, roots (`ms_one/reader.py`) | `RevisionManifestList` |
| `GidTable` | both passes over a global id table sequence | |
| `ObjectIndex` | the id resolving walk and the indexing walk over the groups of a chain | uses the meaning of `GidTable`'s tables |
| `PageHistory` | pages, snapshots and histories of one page series (`ms_one/reader.py`) | default revision as in `RevisionSelection` |
| `TextRuns`, `GraphWalk`, `OutlineParser` | runs and links of a text; walks for file data; children of a node (`ms_one/entities/parsers.py`) | |
| `DocumentTree` | the internal tree and its images (`onenote/parser.py`) | |
| `PdfStory` | the flowables made of the tree (`onenote/pdf_export.py`) | `DocumentTree` |
| `NodeModel` | nodes, edits and `Save` (`model.py`) | `PdfStory` |
| `MCNodeLists`, `MCEntities` | the modules named, one beside the other: they share no state | `FileNodeList`, `NodeLists`, `ManifestContent`; the three of the entities and `GidTable` |
| `MCDocument` | the whole way of a document: convert, fill, load, edit, save, lay out, split | `NodeModel` |
| other `MC...` | values for TLC | |
| `TxnLogProofs`, `RevisionManifestListProofs`, `ObjectIndexProofs`, `PageHistoryProofs` | theorems | the module they are named after (`TxnLogHistory` and `RevisionSelection` too) |
| `ListProofs` | theorems | `FileNodeList`, `NodeLists`, `ManifestContent` |
| `EntityProofs` | theorems | `TextRuns`, `GraphWalk`, `OutlineParser`, `GidTable` |
| `DocumentProofs` | theorems | `NodeModel` |
| `StoryProofs` | theorems | `DocumentProofs`, whose lemmas and invariants it goes on from |

How state and actions correspond to the code:

- **TxnLog.** `file` is the part of the file the references lead to; `current` the
  fragment of the `while` loop, `queue` its entries not read yet, `pending` and `last`
  the dictionaries of the same names, `txns` the transactions counted. One action per
  branch of the entry loop; `FollowNext` and `EndOfChain` are the code after it. A count
  of 0 stands for "no entry", which the code skips anyway.
- **FileNodeList.** The fragment being parsed is `header`, `count`, `terminator`; the
  loop around it owns `list_id`, `remaining`, `fragments` and `returned` (`nodes` in the
  code). The bytes are
  chosen when they are read; since no place is parsed twice, that is the same as a
  file chosen at the start. `remaining = 0` is Python's `None`.
- **RevisionManifestList.** One action per node kind, inside and outside a manifest.
  `current` bundles `current_rid` and its companions; `declared` counts the assignments
  so that a run can bound them. A manifest's content is one of "cannot be parsed", "has
  root objects", "has none"; `ManifestContent` is what lies behind that choice.
- **TypedNodes, NodeLists.** A node is its type and its flaws. `Rules` has one entry for
  each entry of `FILE_NODE_TYPE_PARSERS`; `Verdict` is what its parser does. `NodeLists`
  reads a list once for a strict and for a tolerant reader side by side: `kept`, `alive`,
  `warned` and `value` are functions of the mode. `ReadNode` is the loop of every one of
  these lists, `EndRoot`, `EndSpace`, ... what the caller does with the nodes.
- **ManifestContent.** `where` is the loop that is running: the manifest's, a group
  list's, a table's. `phase`, `sig`, `table`, `roots`, `overrides` have the names of the
  code; `awaits` is the inner read of the node that must follow a group reference;
  `seen` is history.
- **RevisionSelection.** Functions of the list, so operators, not actions. They are
  evaluated on every reachable list; `IndexOf`, `LinearRun` and `Chain` are the loops
  of the reader as sets of positions.
- **GidTable.** `ops`, `dest`, `seen_guid` belong to the first pass; `cursor`, `copied`,
  `table` to the second. `GlobalIdTableEntry2FNDX` is a copied range of length one.
- **ObjectIndex.** The first walk chooses the nodes and keeps them in `script`; the
  second reads them back. A table sequence in a group is one node (a declared table, or
  a copied entry); a change's data can be decoded, cannot be decoded, or refers to one
  object. `n` of a compact id is the same in all ids of the model: only GUIDs differ.
- **PageHistory.** The loops of `parse_section_file` over object spaces, revisions, page
  ids and snapshots, one action per round; `snaps`, `unique`, `histories` are
  `snapshots_by_index`, `unique`, `page_space_history_by_oid`. A revision is what
  parsing it yields: its pages in order and a text for each (`_page_text_signature`).
  Object spaces have at least one revision, as the list parser ensures. The width and
  height of a page, copied or left out, are not part of the model.
- **TextRuns.** A text is a sequence of five kinds of symbol. `TakeEnd`, `PassEnd` and
  `Extend` are the loop over the run ends, `PassMarker` and `TakeField` the loop over
  field markers, `LinkRuns` the last loop, which joins the two results.
- **GraphWalk.** The three walks differ in where they start, whether they start at all,
  and in what they keep; `queue`, `visited`, `steps` are those of the code. An object not
  in `indexed` is one whose record or properties are missing.
- **OutlineParser.** `step` is the place in `parse_node`; `ScanProperty` and
  `ExpandChild` are one round of the loops over properties and children. References that
  come back to a node they started from are not modelled (see section 5).
- **DocumentTree.** Nodes are numbered so that parents come first; one action per node:
  kept and put into its place, or dropped. Then `FillGroup` gives a picture to one group
  of images that have none. The choice among pictures that fit equally is the first.
- **PdfStory.** `work` is the stack of calls: each item is an element still to be
  rendered, `EndTask` the return from an outline. `lists` are the `_ListState` objects of
  the outlines around the element. `Split` is what the layout may do to a paragraph, at
  any line and more than once.
- **NodeModel.** `nodes` is `_children`, `parent` is `ParentNode`. A client takes a node
  out, puts it back at any place, clones a page. `RemoveChild` models `list.remove` on
  dataclasses: the first *equal* child goes; a comparison that runs in circles raises.
  `Save` starts the story from the tree that was loaded.

## 3. Runs

| Run | Question | Result |
|---|---|---|
| `txn_log` | Is the result what a definition over the whole chain gives, is the parse a refinement of atomic transactions, are the visible counts at each moment the latest closed ones, is nothing behind the limit read, does it end without a cycle? | holds |
| `committed_count` | Are no more nodes of a list returned than are committed? | violated: the first fragment is read without the limit |
| `revisions` | Dependencies, assignments, encryption; default revision, chain, independence of contexts | holds |
| `section_roots` | Do the section's roots come from an indexed revision? | violated: roots of the last revision, objects of the default one |
| `object_index` | Do both walks resolve alike, is the index a replay, does a strict second walk accept what the first did? | holds |
| `page_history` | Is each page's history exactly its past changes, newest first? Does every current page stay in place? | holds |
| `lists` | Are the fragments of a list one chain? Behind the first of them, are the nodes returned committed and torn tails ignored? Does tolerant reading give what strict reading gives wherever that succeeds? Do indices depend on the right thing only? Are a manifest's parts in order and its signature groups those of their own list? | holds |
| `entities` | Do both passes over an id table agree, is the table a bijection that holds what is declared? Do runs tile a text and fields become links? Do walks find all in reach? Are children kept once, and embedded objects too? | holds |
| `outline_refs` | Is a property that adds outline elements preferred to one that does not? | violated: the score kept for it is 0 |
| `document` | Is every visible text drawn once and in order? Do list numbers of one key and style count, markers survive splits, images of an object agree, nodes stay a tree and show what is drawn? | holds |
| `image_groups` | Is the picture of an image chosen by an image of the same object? | violated: the group is that of the id's guid alone |
| `number_styles` | Does an item whose format differs from the last one's start again with 1? | violated: the style of the number is not compared |

Bounds, and why they are enough:

- *log*: two fragments of up to two entries, two lists, every successor including
  cycles and references out of the file; the history ends one entry after the longest
  parse that can end. A transaction that spans
  fragments, a limit in the middle of one, and an update overwritten in the same and in
  a later transaction all occur.
- *file node lists*: four places, two ids, counts up to three: the limit falls on, before and
  behind a fragment's end, in the first fragment and in later ones, chains return to a
  place or enter the other list, and the bound on the number of fragments is met.
- *revisions*: three ids, two contexts, two roles, one key, two assignments, one node
  inside a manifest. `Bound` leaves out lists that have both a second context and a
  marker or a key: no condition of the code looks at both. The run is strict; tolerant
  mode is covered by `section_roots` and by the proofs, which hold for both. Three are
  the fewest revisions for a dependency that is not the previous revision and for a
  context between two revisions of another.
- *tables*: two GUIDs, indices up to the limit and one above, ranges up to two: two
  direct entries collide, ranges overlap, leave the limit and miss their source.
- *index*: two ids, two GUIDs, five nodes: a group with a table after a group without
  one, and a declaration, a revision and a failed revision of one object. Ids and
  GUIDs are interchangeable, so symmetry is sound (no liveness there).
- *histories*: two pages, two texts, two object spaces, four revisions in all: a text
  that changes and changes back, a page missing in a snapshot, a lone page under
  another id, and two object spaces with a history for the same id.
- *node lists*: two ids, three hashes, three nodes, and every single type of node with
  every flaw: two references to one space or file, a root that is not among the spaces,
  three hashes of a blob out of order. *Manifests*: four nodes, group lists of three: a
  signature group before, in and after a group list; a group behind the table.
- *texts*: up to three symbols after nothing or after a field (eight in all), up to
  three ends before, on and behind each other. *Walks*: four objects, depth 2, four
  turns: cycles, an object shared by two, one without record, the bound on turns met.
  *Outlines*: three elements, a paragraph, a file, a container, lists of up to two.
- *documents*: all trees of up to four nodes of every kind, deeper ones in a table cell,
  and three families for one question each: numbered lists of four or five items on up
  to four levels (restarts at 3 and 26, so that z is followed by aa, and at 3998, above
  which roman numbers stay at 3999), or of two with an outline between them; albums of
  three images of three objects under two guids; books of two series with outlines in
  any order. Three small drafts are edited up to three times: remove, clone, insert.

`CHECK_DEADLOCK` is never switched off: a parse that has ended stutters.

Fairness is stated in one run, `txn_log`: weak fairness of the next-state relation. The
parser is one loop that nobody interrupts, so that it takes its next step as long as
there is one. Under that, `AcyclicTerminates` holds; on a cycle with too few sentinels the
parse never ends. No other run assumes fairness.

Five promises of the documents, comments and tests that the code does not keep have a run and
a finding (`committed_count`, `section_roots`, `outline_refs`, `image_groups`,
`number_styles`). These were seen while modelling and have none:

- a cyclic chain of log fragments is read without end (`txn_log.py:169`), although
  `docs/ms-onestore/03-header.md:75` asks for a set of visited references;
- in tolerant mode the second walk can raise where the first one only warned: no table
  is `None` in one and `{}` in the other (`object_index.py:159`);
- pages that are rebuilt with a history lose `page_width` and `page_height`
  (`reader.py:545`);
- a gosid in a start node that is not the list's is passed over silently in tolerant
  mode (`object_space.py:247`, 1296);
- `RemoveChild` takes an equal earlier sibling out of the list, or raises
  `RecursionError` when it compares nodes with children (`model.py:135`);
- `Save` draws the tree that was loaded: edits of the nodes do not show in the PDF
  (`model.py:432`).

What the properties do not say:

- `LaterNodesCommitted` and `TornTailIgnoredLater` are about the fragments behind the first. In
  the first one nodes beyond the count are returned and a torn one fails the parse, because the
  count is looked up too late; `CommittedCountKept` is the run for it.
- `AcyclicTerminates` excludes cycles of log fragments. `NothingReadAfterLimit` holds on
  them as well, when the sentinels in them are enough.
- `HistoryIsChanges` shares with the model the rule by which a snapshot with a single page
  stands for any id (`Hits`, `reader.py:520`): it does not say that this page is the right one.
- `NumbersCount` says nothing of an item that differs from the last one in the style of its
  number alone, which `FormatChangeRestarts` is about.
- `NodesFormTree` leaves out what follows once `RemoveChild` has taken a sibling (`strayed`), and
  the children of a page that was cloned (`shared`).

## 4. Proofs

All theorems hold for every value of the constants that satisfies the named
`ASSUME`s: bounds are naturals, sentinels are no data, a log has finitely many
fragments, references lead to objects of the graph, a series has finitely many page ids,
a tree consists of nodes with the attributes that the parser reads, what `parse_node` sees
as a container is an object it does not know, and the tags of one object are not repeated.
TLC checked each property before it was proved, on the run that still has it; the type
invariants of `TxnLog` and `RevisionManifestList` are proved only and no
longer part of a run.

| Module | Theorem | Argument |
|---|---|---|
| `TxnLogProofs` | `TypeCorrect` | inductive as it stands |
| | `Refinement` | each step of the parser is a step of `CommittedView` or a stutter; needs only the types |
| | `LatestWins`, `StopsAtLimit` | an invariant that ties the history of what was read to `last` and `pending` |
| | `ReturnsCommitted` | the reference's walk over the chain has as many steps as there are fragments, and a prefix of it is what was read; what it says of a list the history says too |
| `RevisionManifestListProofs` | `TypeCorrect`, `DependencyForest`, `NoDanglingAssignment`, `UniformEncryption` | the invariant adds: the ids started are those of the list and the open one; what is assigned has been started |
| | `SelectionReplays`, `ChainsComplete` | the invariant adds that roles assigned so far have a bound, so that there is a highest one. Dependencies precede, so that each revision has one earlier position to go back to; the chain is what these steps reach, and a linear run is part of it |
| | `OtherContextsKeep` | appending keeps positions and ids, so that the highest role of the default context still names the same one |
| `ObjectIndexProofs` | `TypeCorrect`, `WalksInvariant`, `ResolvedAlike`, `StrictAccepts` | `WalksInvariant`: each walk has in its variables the tables that the nodes before its position put in scope, and resolved every id with them, as long as no copy came out of a revision without a table; the second walk never gets past such a copy |
| | `IndexReplays` | the record of an object after a node is that of before the node, changed by it; so the replay of a longer script is one step from that of the shorter |
| `ListProofs` | `TypeCorrect`, `ChainIsOne`, `LaterNodesKept`, `TornTailSafe` | the invariant adds: accepted places are visited; `remaining` plus the nodes accepted is the committed count once the first fragment is in; while there is one fragment all nodes are its own (`FirstNodes`), and more nodes than are committed only come while there is one |
| | `TolerantLosesNothing` | while the strict reader is alive both have kept the same nodes and hold the same value |
| | `FirstReferencesKept` | both readers keep exactly the places of first references |
| | `OrderIgnored` | both readers keep exactly the chunks; a list has an order, which grows by putting the next chunk in front of the first that comes after it; the first chunk of a blob in that order has its least hash |
| | `SignatureOfOwnList` | the group in force for a manifest and for its open group list is the last one that list defined before the current place |
| | `PartsInOrder` | `phase`, `table`, `awaits` and `overrides` say which types of node have been seen, and in which order |
| `EntityProofs` | `RunsTileTexts` | the runs so far tile the text up to `start`, and all ends passed lie before it; sorted ends make the first that reaches a place the one whose format it gets |
| | `FieldsLinkTexts` | each span lies in the text and has no marker in it; runs get links only when all spans are known |
| | `WalksFind` | breadth first: the queue is in two layers of depth, everything visited is at its true distance, and what is nearer than the queue's head has been visited |
| | `ElementsStay` | while containers are replaced, what is there of the children of the lists is what the children passed have of them; expansions are elements not there yet, so that an element is neither doubled nor lost when its container comes first |
| | `EmbeddedFollow` | what is added so far is what the paragraphs passed hold, less the content, each once; its length is then its cardinality |
| | `TypeCorrect`, `SecondPassNeverClashes`, `TableStaysInjective`, `TableMatchesSequence` | the invariant adds: destinations of different entries are disjoint; the table's indices are destinations of entries before `cursor` or of the copied part of `cursor`; every such entry is in the table |
| `PageHistoryProofs` | `HistoriesAreChanges` | `snapshots_by_index` holds the snapshots of the revisions read, `unique` the states of the page among them that differ from the one before; each history is that of the last object space settled that tells of the page |
| | `PagesKeepOrder` | the pages are the current ones of the object spaces read, one after the other; the result has a place for each |
| `DocumentProofs` | `PicturesAreShared` | the missing images met so far are the walk's, in its order; images of a group filled have the picture of its first, those of other groups none |
| | `NodesStayTree` | each node other than the Document has a rank below which its parent is; a client's edit keeps the ranks of what it leaves alone and puts what it moves or clones under a node that does not lie in it |
| | `SavedIsLoaded` | until the story ends, what it holds and what is still to be rendered are elements under the pages; each of those that can be drawn is loaded, because the loader goes down by the same children, and puts a title with its text in front of those of a page (`TitleShown`) |
| | `MarkedOnce` | nothing on the stack lies in anything else there or in a page to come, and nothing drawn or marked lies in any of it; so each list item with a marker has it either on the stack, at its first text and with none of its texts drawn, or in the story, at its first text and with its other texts on the stack unmarked. A split keeps the second |
| `StoryProofs` | `ItemsCount` | every task on the stack has its list state: the innermost one, or as many further out as ends of outlines stand in front of it; and that is the state of the outline it lies in (`Home`). Each cell of a list state is unused or holds the number that the last mark which still counts shows (`CellHolds`). An outline that has a list state, or whose items are marked, is behind what is still to come, so that one that comes finds no marks of its own. A marker read by `Value` gives the number it was made of (`MarkerShows`), to 3999 for numerals. The cell holds the key of the last mark and not its style, so that the next item counts on from it whenever the keys agree; the theorem states this for items of one style (`CountsOn`) |
| | `TextsDrawnOnce` | conversion keeps every node that is to be seen, puts it into the list of its place, and fills each list in the order of the file (`FullInv`). Order: the flowables drawn, the tasks on the stack and the pages to come stand for sets of texts, each set in front of the next (`OrderStory`). Number: a text has all its lines in the story or is under exactly one task or page to come that will draw it, unless it is not to be seen (`CountStory`). Each turn replaces a task by its parts, and a split keeps the sum of a text's lines |

`DependenciesPrecede` alone is not inductive: a start checks against `started_rids`,
not against the list, so that the invariant must say that a started revision other than
the open one is in the list. `NoIndexClash` is a statement about an action that never
happens; it follows because what the second pass adds next is a destination that no
earlier entry has.

`WalksResolveAlike` needs the invariant's exception (`CopiesOk`): in tolerant mode the
first walk goes on where the second raises, so that the tables of the two agree
only up to there. `WalkFindsReachable` is not inductive either: a walk that is
going on knows only part of its reach, so that the invariant speaks of layers of distance.

Some of the models' operators are recursive functions (the distance of an object in a
graph, the concatenation of snapshots, the chain of a revision, the loops of `parse_node`
that copy members of a list). Their values for every
input are proved by induction in first-order form: a set of numbers that is not empty has
a least one (`LeastNatural`, from the well-foundedness of inclusion of finite sets), and a
function with the recursive equation exists because it does on each prefix.

The trees of the documents are read by functions that call themselves on the lists of a
node (`Pages`, `CellContent`, the walk of `_walk_elements`). `StructuralRecursion` defines
such a function, because what a list of a node names has a greater rank (`IdRank`), and
`RankInduction` proves what it returns. What lies `Under` a node is defined in the same way, and
`UnderFacts` is what the proofs about the order of drawing use of it: the nodes of a list
have nothing in common. The invariants are `ConvInv` for the conversion, `DomInv` for the
nodes, and on top of them `DataInv` for images, `DrawnInv`, `MarkInv`, `NumInv` and `TextInv`
for the story.

The attempt to prove `DrawnOnceInOrder` showed that the model allowed texts, images and
files to hold nodes, which the trees TLC enumerates never had and for which the property
is false. `ms_one/entities/structure.py` gives children to none of them; `NodesInOrder`
now says so.

Only model-checked: `AcyclicTerminates`, which is liveness. The properties of the runs that
end in a violation are false, so that TLC's counterexamples are all there is to them.

## 5. Not modelled, and the plan

Left out for good, because they keep no state, decide nothing that other parts depend
on, and tests with the sample files reach them: bit layouts of headers, file nodes and
property sets, checksums, summaries, exception classes; scalar properties that are
copied from a property set to a node; fonts, colours, positions and canvas calls of the
PDF; visitors and searches over nodes, which only read; text edits of `RichText`.

Left out and open:

- the cursor of `BinaryReader` and its views, and the nil reference, which is asked for
  in three ways (`object_space.py:553`);
- the consumption of the three id streams by nested property sets (`object_data.py`);
- `parse_node` on references that lead back to a node it is inside of, which ends in a
  `RecursionError`; the bounded walks are modelled on any graph;
- the choice of the section's root node in `parse_section_file`;
- a table whose rows have no cells, which makes ReportLab raise while the PDF is built: the model
  draws nothing for it;
- the attachments and links that the canvas adds to a page.
