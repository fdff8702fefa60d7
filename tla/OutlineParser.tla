------------------------------ MODULE OutlineParser ------------------------------
(***************************************************************************)
(* What parse_node (ms_one/entities/parsers.py) makes the children of a    *)
(* page and of an outline, where the references may hide in unexpected     *)
(* properties or in containers the parser does not know, and the content   *)
(* of an outline element, to which the objects embedded in its paragraphs  *)
(* are added and whose files are given its tags.                           *)
(*                                                                         *)
(* Objects are told apart by their type.  Of the node there are its lists  *)
(* of references, in the order of its property set, and its tags; of other *)
(* objects the references parse_node looks at: the children of a container *)
(* and the objects embedded in a paragraph.                                *)
(***************************************************************************)
EXTENDS Integers, Sequences, SequencesExt

CONSTANTS
    OutlineElements, Paragraphs, Files, Containers,  \* objects; Files: images, tables, too
    Properties,   \* property sets of the node: sequences of a pid and references
    Inner,        \* references of containers and paragraphs
    TagLists      \* sequences of note tags without repetition

Known == OutlineElements \cup Paragraphs \cup Files
ASSUME ContainersAreUnknown == Containers \cap Known = {}
ASSUME InnerAreReferences == Inner \subseteq Seq(Known \cup Containers)
ASSUME PropertiesHaveReferences ==
    \A list \in Properties :
        /\ list \in Seq(Range(list))
        /\ \A i \in DOMAIN list : list[i].refs \in Seq(Known \cup Containers)
ASSUME TagListsAreInjective ==
    \A list \in TagLists : list \in Seq(Range(list)) /\ IsInjective(list)

VARIABLES
    node,       \* "Page", "Outline" or "OutlineElement"
    props,      \* its property set
    inner,      \* references of each container and paragraph
    tags,       \* the tags of each file; what they become is put here
    ownTags,    \* the tags of the node
    step,       \* "merge", "scan", "expand", "embed", "propagate" or "done"
    at,         \* the property or child to be looked at next
    children,
    best,       \* best_oids and best_hits
    extra       \* expanded, or the embedded objects

nodeVars == <<node, props, inner, tags, ownTags, step, at, children, best, extra>>

NodeInit ==
    /\ node \in {"Page", "Outline", "OutlineElement"}
    /\ props \in Properties
    /\ inner \in [Containers \cup Paragraphs -> Inner]
    /\ tags \in [Files -> TagLists]
    /\ ownTags \in TagLists
    /\ step = "merge" /\ at = 1
    /\ children = <<>> /\ extra = <<>>
    /\ best = [refs |-> <<>>, hits |-> 0]

-----------------------------------------------------------------------------
Input == <<node, props, inner, ownTags>>

(* get_oid_array: the first property of that pid counts.                   *)
Refs(pid) ==
    LET p == SelectInSeq(props, LAMBDA prop : prop.pid = pid)
    IN IF p = 0 THEN <<>> ELSE props[p].refs

(* The loops that copy some of the members of a list, or each once.        *)
Only(seq, wanted) ==
    LET out[n \in 0..Len(seq)] ==
          IF n = 0 THEN <<>>
          ELSE IF seq[n] \in wanted THEN Append(out[n - 1], seq[n]) ELSE out[n - 1]
    IN  out[Len(seq)]
Once(seq) ==
    LET out[n \in 0..Len(seq)] ==
          IF n = 0 THEN <<>>
          ELSE IF \E m \in 1..(n - 1) : seq[m] = seq[n] THEN out[n - 1]
          ELSE Append(out[n - 1], seq[n])
    IN  out[Len(seq)]
Unseen(seq, seen) == Only(seq, Range(seq) \ seen)
Elements(seq)     == Only(seq, OutlineElements)

(* Both lists together hold every child once; the one list alone is taken  *)
(* as it is.                                                               *)
Merged ==
    IF Refs("ContentChildNodes") = <<>> THEN Refs("ElementChildNodes")
    ELSE Once(Refs("ElementChildNodes") \o Refs("ContentChildNodes"))

Merge ==
    /\ step = "merge" /\ node # "OutlineElement"
    /\ children' = Merged
    /\ step' = IF node = "Page" THEN "done" ELSE "scan"
    /\ UNCHANGED <<Input, tags, at, best, extra>>

(* Any property may refer to outline elements; the best one is added.      *)
Hits(refs)    == Len(Elements(refs))
NewHits(refs) == Len(Unseen(Elements(refs), Range(children)))

ScanProperty ==
    /\ step = "scan" /\ at <= Len(props)
    /\ LET refs == props[at].refs
           better == \/ NewHits(refs) > 0
                     \/ Hits(refs) > best.hits
       IN best' = IF refs # <<>> /\ better THEN [refs |-> refs, hits |-> Hits(refs)] ELSE best
    /\ at' = at + 1
    /\ UNCHANGED <<Input, tags, step, children, extra>>

AddBest ==
    /\ step = "scan" /\ at > Len(props)
    /\ children' = children \o Unseen(Elements(best.refs), Range(children))
    /\ step' = "expand" /\ at' = 1
    /\ UNCHANGED <<Input, tags, best, extra>>

(* A container gives way to the outline elements in it, if they are two at *)
(* least, half of what it refers to, and some of them are new.             *)
ExpansionUnchecked(child) ==
    LET refs == IF child \in Containers THEN inner[child] ELSE <<>> IN
    IF Hits(refs) >= 2 /\ Hits(refs) * 2 >= Len(refs) THEN Elements(refs) ELSE <<>>
Expansion(child) ==
    LET refs == IF child \in Containers THEN inner[child] ELSE <<>> IN
    IF Hits(refs) >= 2 /\ Hits(refs) * 2 >= Len(refs)
    THEN Unseen(Elements(refs), Range(children) \cup Range(extra)) ELSE <<>>

ExpandChild ==
    /\ step = "expand" /\ at <= Len(children)
    /\ extra' = extra \o (IF Expansion(children[at]) = <<>> THEN <<children[at]>>
                          ELSE Expansion(children[at]))
    /\ at' = at + 1
    /\ UNCHANGED <<Input, tags, step, children, best>>

EndExpand ==
    /\ step = "expand" /\ at > Len(children)
    /\ children' = extra
    /\ step' = "done"
    /\ UNCHANGED <<Input, tags, at, best, extra>>

-----------------------------------------------------------------------------
TakeContent ==
    /\ step = "merge" /\ node = "OutlineElement"
    /\ children' = Refs("ContentChildNodes")
    /\ step' = "embed"
    /\ UNCHANGED <<Input, tags, at, best, extra>>

(* _extract_embedded_objects_from_richtext: what is not there yet is added *)
(* behind the content, once.                                               *)
Embedded(child) ==
    IF child \in Paragraphs THEN Unseen(Once(inner[child]), Range(children) \cup Range(extra))
    ELSE <<>>

EmbedObjects ==
    /\ step = "embed" /\ at <= Len(children)
    /\ extra' = extra \o Embedded(children[at])
    /\ at' = at + 1
    /\ UNCHANGED <<Input, tags, step, children, best>>

EndEmbed ==
    /\ step = "embed" /\ at > Len(children)
    /\ children' = children \o extra
    /\ step' = "propagate"
    /\ UNCHANGED <<Input, tags, at, best, extra>>

(* _merge_tags                                                             *)
MergeTagsOrInherit(existing, inherited) == IF existing = <<>> THEN inherited ELSE existing
MergeTags(existing, inherited) == existing \o Unseen(inherited, Range(existing))

Propagate ==
    /\ step = "propagate"
    /\ tags' = [f \in Files |-> IF f \in Range(children) THEN MergeTags(tags[f], ownTags)
                                ELSE tags[f]]
    /\ step' = "done"
    /\ UNCHANGED <<Input, at, children, best, extra>>

NodeStop == step = "done" /\ UNCHANGED nodeVars

NodeNext ==
    \/ Merge \/ ScanProperty \/ AddBest \/ ExpandChild \/ EndExpand
    \/ TakeContent \/ EmbedObjects \/ EndEmbed \/ Propagate \/ NodeStop
NodeSpec == NodeInit /\ [][NodeNext]_nodeVars

-----------------------------------------------------------------------------
Done(type) == step = "done" /\ node = type
Listed == Once(Refs("ElementChildNodes") \o Refs("ContentChildNodes"))
AllLists == {props[i].refs : i \in DOMAIN props} \cup {inner[x] : x \in DOMAIN inner}

(* The heuristics only add: every known child the two child lists refer to *)
(* is a child, in their order; and no outline element is one twice unless  *)
(* some list names an object twice.                                        *)
ElementsKeptOnce ==
    Done("Outline") \/ Done("Page") =>
        /\ LET listed == Range(Listed) \cap Known
           IN Once(Only(children, listed)) = Only(Listed, listed)
        /\ (\A list \in AllLists : IsInjective(list)) => IsInjective(Elements(children))

(* The content of an outline element comes first; every object embedded in *)
(* one of its paragraphs follows, once; each file has its own tags and     *)
(* those of the element, none of them twice.                               *)
EmbeddedOnce ==
    Done("OutlineElement") =>
        LET content  == Refs("ContentChildNodes")
            embedded == (UNION {Range(inner[p]) : p \in Range(content) \cap Paragraphs})
                          \ Range(content)
        IN /\ SubSeq(children, 1, Len(content)) = content
           /\ Len(children) = Len(content) + Cardinality(embedded)
           /\ Range(children) = Range(content) \cup embedded
           /\ \A f \in Range(children) \cap Files :
                IsInjective(tags[f]) /\ Range(ownTags) \subseteq Range(tags[f])

(* "Prefer properties that add new OutlineElement references."             *)
NewElementsPreferred ==
    Done("Outline") =>
        LET listed == Range(Elements(Listed)) IN
        (\E i \in DOMAIN props : ~(Range(Elements(props[i].refs)) \subseteq listed))
            => ~(Range(Elements(children)) \subseteq listed)
=============================================================================
