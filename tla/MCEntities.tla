------------------------------- MODULE MCEntities -------------------------------
(* The entity parsers, and the tables that give their ids a meaning: a     *)
(* text is cut into runs, or a walk looks for data, or the children of a   *)
(* node are put together, or a global id table is built.                   *)
EXTENDS TextRuns, GraphWalk, OutlineParser, GidTable

CONSTANTS e1, e2, e3, p1, f1, k1, x, y, z

UpTo(S, n) == UNION {[1..k -> S] : k \in 0..n}

(* Texts of up to three symbols, after nothing or after a whole field.     *)
MCTexts ==
    {p \o s : p \in {<<>>, <<"marker", "keyword", "quote", "other", "quote">>,
                     <<"other", "marker", "keyword", "quote">>},
              s \in UpTo(Symbols, 3)}
MCEnds == UpTo({0, 2, 5}, 2) \cup {<<1, 0, 3>>}
MCFormats == {<<>>, <<FALSE>>, <<TRUE, FALSE>>, <<FALSE, FALSE>>, <<FALSE, TRUE, FALSE>>}

(* Lists of up to two references, in every order of the properties.        *)
Property(pid, list) == [pid |-> pid, refs |-> list]
MCContents == {<<>>, <<e1>>, <<p1>>, <<p1, f1>>, <<p1, p1>>, <<e3, e2>>}
MCProperties ==
    UNION {{<<Property("ElementChildNodes", a), Property("ContentChildNodes", b), Property("other", c)>>,
            <<Property("other", c), Property("ContentChildNodes", b), Property("ElementChildNodes", a)>>} :
           a \in UpTo({e1, e2, k1}, 2), b \in MCContents, c \in {<<>>, <<e3>>, <<e2, e3>>}}
MCInner == {<<>>, <<e1, e3>>, <<f1, k1, f1>>, <<k1, e2, e3, f1>>, <<p1, f1, e1>>}
MCTagLists == {<<"todo">>, <<"idea", "todo">>}

(* References among three objects; data in none, one or all of them.       *)
MCReferences == {<<>>, <<x>>, <<y>>, <<z>>, <<x, y>>, <<y, x>>, <<z, z>>}
Payload(t, a, b, c) == (Top :> t) @@ (x :> a) @@ (y :> b) @@ (z :> c)
MCPayloads == {Payload(1, 0, 0, 1), Payload(0, 1, 2, 1), Payload(0, 0, 0, 1), Payload(0, 0, 1, 0)}
MCIndexes == {Objects, Objects \ {y}}

TextIdle ==
    /\ text = <<>> /\ ends = <<>> /\ formats = <<>> /\ doing = "done" /\ next = 1 /\ start = 0
    /\ runs = <<>> /\ scan = 0 /\ spans = <<>>
WalkIdle ==
    /\ kind = "guids" /\ hasIndex = FALSE /\ indexed = {} /\ walking = FALSE
    /\ refs = [o \in Objects |-> <<>>] /\ payload = [o \in Objects |-> 0]
    /\ queue = <<>> /\ visited = {} /\ steps = 0 /\ found = {} /\ largest = NoObject
NodeIdle ==
    /\ node = "Page" /\ props = <<>> /\ inner = [o \in Containers \cup Paragraphs |-> <<>>]
    /\ tags = [f \in Files |-> <<>>] /\ ownTags = <<>> /\ step = "done" /\ at = 1
    /\ children = <<>> /\ best = [refs |-> <<>>, hits |-> 0] /\ extra = <<>>

TableIdle ==
    /\ strict = TRUE /\ dep = None /\ pc = "done" /\ ops = <<>> /\ dest = {} /\ seen_guid = {}
    /\ cursor = 1 /\ copied = 0 /\ table = [i \in {} |-> None] /\ failure = "none"

EntityInit ==
    \/ TextInit /\ WalkIdle /\ NodeIdle /\ TableIdle
    \/ TextIdle /\ WalkInit /\ NodeIdle /\ TableIdle
    \/ TextIdle /\ WalkIdle /\ NodeInit /\ TableIdle
    \/ TextIdle /\ WalkIdle /\ NodeIdle /\ Init
EntityNext ==
    \/ TextNext /\ UNCHANGED <<walkVars, nodeVars, vars>>
    \/ WalkNext /\ UNCHANGED <<textVars, nodeVars, vars>>
    \/ NodeNext /\ UNCHANGED <<textVars, walkVars, vars>>
    \/ Next /\ UNCHANGED <<textVars, walkVars, nodeVars>>
EntitySpec == EntityInit /\ [][EntityNext]_<<textVars, walkVars, nodeVars, vars>>
=============================================================================
