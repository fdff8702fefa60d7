------------------------------- MODULE PageHistory -------------------------------
(***************************************************************************)
(* The pages of one page series and their earlier versions, collected by   *)
(* parse_section_file[_with_page_history] (ms_one/reader.py) from the      *)
(* object spaces the series refers to, one after the other.                *)
(*                                                                         *)
(* An object space is chosen when the loop comes to it.  Of a page matter  *)
(* its id and its text (_page_text_signature).  Which revision is the      *)
(* default one is the matter of RevisionSelection.                         *)
(***************************************************************************)
EXTENDS Integers, Sequences, FiniteSets, SequencesExt

CONSTANTS
    Oids,         \* page ids
    Texts,
    NoOid,        \* no page
    MaxSpaces,    \* bound: object spaces of the series
    MaxRevisions  \* bound: revisions of all of them

ASSUME NoOidIsNoPage == NoOid \notin Oids
ASSUME FewOids == IsFiniteSet(Oids)
ASSUME Bounds == {MaxSpaces, MaxRevisions} \subseteq Nat

Page == [oid : Oids, text : Texts]

(* The pages of a revision in the order they are found, each once.         *)
Orders   == {s \in UNION {[1..n -> Oids] : n \in 0..Cardinality(Oids)} :
               IsInjective(s)}
Revision == UNION {[order : {s}, text : [Range(s) -> Texts]] : s \in Orders}
Space(n) == [revisions : [1..n -> Revision], latest : 1..n]

VARIABLES
    include,    \* include_page_history
    pc,         \* "series", "snapshots", "oids", "history", "done", "failed"
    spaces,     \* the object spaces read so far
    pages,      \* the current pages of all of them
    snaps,      \* snapshots_by_index of the current space
    left,       \* the ids of all_oids whose history is still to be made
    oid,        \* the id whose history is being made, or NoOid
    at,         \* how many snapshots have been looked at for it
    unique,     \* the states of it found so far
    histories,  \* page_space_history_by_oid; <<>>: no entry
    result      \* the children of the series: each page and its history

space == <<snaps, left, oid, at, unique>>
vars  == <<include, pc, spaces, pages, space, histories, result>>

Init ==
    /\ include \in BOOLEAN
    /\ pc = "series"
    /\ spaces = <<>>
    /\ pages = <<>>
    /\ snaps = <<>>
    /\ left = {}
    /\ oid = NoOid
    /\ at = 0
    /\ unique = <<>>
    /\ histories = [o \in Oids |-> <<>>]
    /\ result = <<>>

-----------------------------------------------------------------------------
(* _extract_pages_for_revision.                                            *)
Extract(revision) ==
    [k \in DOMAIN revision.order |->
        [oid  |-> revision.order[k], text |-> revision.text[revision.order[k]]]]

RevisionsRead == FoldSeq(LAMBDA s, n : n + Len(s.revisions), 0, spaces)
Current == Last(spaces)

(* A reference to an unknown object space is skipped.                      *)
SkipSpace == pc = "series" /\ UNCHANGED vars

ReadSpace ==
    /\ pc = "series"
    /\ Len(spaces) < MaxSpaces
    /\ \E n \in {m \in 1..MaxRevisions : RevisionsRead + m <= MaxRevisions} : \E s \in Space(n) :
         /\ spaces' = Append(spaces, s)
         /\ pages' = pages \o Extract(s.revisions[s.latest])
    /\ pc' = IF include THEN "snapshots" ELSE "series"
    /\ UNCHANGED <<include, space, histories, result>>

(* Snapshots of all revisions up to the default one, in list order.        *)
TakeSnapshot ==
    /\ pc = "snapshots"
    /\ Len(snaps) < Current.latest
    /\ snaps' = Append(snaps, Extract(Current.revisions[Len(snaps) + 1]))
    /\ UNCHANGED <<include, pc, spaces, pages, left, oid, at, unique, histories, result>>

(* The current pages are those of the last snapshot.                       *)
EndSnapshots ==
    /\ pc = "snapshots"
    /\ Len(snaps) = Current.latest
    /\ left' = {p.oid : p \in UNION {Range(snap) : snap \in Range(snaps)}}
    /\ pc' = "oids"
    /\ UNCHANGED <<include, spaces, pages, snaps, oid, at, unique, histories, result>>

(* all_oids is a set: its order is any.                                    *)
StartHistory ==
    /\ pc = "oids"
    /\ oid' \in left
    /\ left' = left \ {oid'}
    /\ pc' = "history"
    /\ UNCHANGED <<include, spaces, pages, snaps, at, unique, histories, result>>

(* A snapshot shows the page with that id, or its only page: page ids may  *)
(* change from revision to revision.                                       *)
Hits(snap, o) ==
    LET same == {p \in Range(snap) : p.oid = o}
    IN  IF same = {} /\ Len(snap) = 1 THEN {snap[1]} ELSE same

IsChangeAlways(p) == TRUE
IsChange(p) == unique = <<>> \/ p.text # Last(unique).text

SeeState ==
    /\ pc = "history" /\ at < Len(snaps)
    /\ at' = at + 1
    /\ \E p \in Hits(snaps[at + 1], oid) :
         unique' = IF IsChange(p) THEN Append(unique, p) ELSE unique
    /\ UNCHANGED <<include, pc, spaces, pages, snaps, left, oid, histories, result>>

SeeNothing ==
    /\ pc = "history" /\ at < Len(snaps)
    /\ Hits(snaps[at + 1], oid) = {}
    /\ at' = at + 1
    /\ UNCHANGED <<include, pc, spaces, pages, snaps, left, oid, unique, histories, result>>

(* The newest state is the current one; the others, newest first, are the  *)
(* history.                                                                *)
Past(states) == Reverse(Front(states))

EndHistory ==
    /\ pc = "history" /\ at = Len(snaps)
    /\ histories' = IF Len(unique) < 2 THEN histories
                    ELSE [histories EXCEPT ![oid] = Past(unique)]
    /\ pc' = "oids"
    /\ oid' = NoOid
    /\ at' = 0
    /\ unique' = <<>>
    /\ UNCHANGED <<include, spaces, pages, snaps, left, result>>

EndSpace ==
    /\ pc = "oids" /\ left = {}
    /\ pc' = "series"
    /\ snaps' = <<>>
    /\ UNCHANGED <<include, spaces, pages, left, oid, at, unique, histories, result>>

(* If there is any history, all pages of the series are built anew.        *)
AnyHistory == \E o \in Oids : histories[o] # <<>>
Enrich(page) == [page |-> page, history |-> histories[page.oid]]
WithoutHistory(page) == [page |-> page, history |-> <<>>]

PagesWithHistory == SelectSeq(pages, LAMBDA p : histories[p.oid] # <<>>)
EndSeriesChanged ==
    /\ pc = "series"
    /\ result' = IF AnyHistory
                 THEN [k \in DOMAIN PagesWithHistory |-> Enrich(PagesWithHistory[k])]
                 ELSE [k \in DOMAIN pages |-> WithoutHistory(pages[k])]
    /\ pc' = "done"
    /\ UNCHANGED <<include, spaces, pages, space, histories>>

(* Without pages the series stays as it was, which is not told apart here. *)
EndSeries ==
    /\ pc = "series"
    /\ result' = IF AnyHistory THEN [k \in DOMAIN pages |-> Enrich(pages[k])]
                 ELSE [k \in DOMAIN pages |-> WithoutHistory(pages[k])]
    /\ pc' = "done"
    /\ UNCHANGED <<include, spaces, pages, space, histories>>

(* An object space that cannot be read makes the whole parse fail.         *)
Raise ==
    /\ pc \in {"series", "snapshots"}
    /\ pc' = "failed"
    /\ UNCHANGED <<include, spaces, pages, space, histories, result>>

Stopped == pc \in {"done", "failed"} /\ UNCHANGED vars

Next ==
    \/ SkipSpace \/ ReadSpace \/ TakeSnapshot \/ EndSnapshots
    \/ StartHistory \/ SeeState \/ SeeNothing \/ EndHistory \/ EndSpace
    \/ EndSeries \/ Raise
    \/ Stopped

Spec == Init /\ [][Next]_vars

-----------------------------------------------------------------------------
(* The revisions of space s up to the default one that show page o, and    *)
(* those that show it changed since the one before that shows it.          *)
Shown(s, o) == {r \in 1..s.latest : Hits(Extract(s.revisions[r]), o) # {}}
StateOf(s, o, r) == CHOOSE p \in Hits(Extract(s.revisions[r]), o) : TRUE
Changed(s, o) ==
    {r \in Shown(s, o) :
       LET earlier == {q \in Shown(s, o) : q < r}
       IN  earlier # {} => StateOf(s, o, Max(earlier)).text # StateOf(s, o, r).text}

(* h is the history of o in s: its states at all changes but the last,    *)
(* newest first.                                                           *)
IsHistoryIn(h, s, o) ==
    LET past == Changed(s, o) \ {Max(Changed(s, o))}
    IN  \E revs \in [DOMAIN h -> past] :
          /\ Range(revs) = past
          /\ \A i, j \in DOMAIN h : i < j => revs[i] > revs[j]
          /\ \A i \in DOMAIN h : h[i] = StateOf(s, o, revs[i])

(* The object spaces that show o up to their default revision, and those   *)
(* of them that show it change.                                            *)
SpacesOf(o) ==
    {k \in DOMAIN spaces : \E r \in 1..spaces[k].latest :
        o \in Range(spaces[k].revisions[r].order)}
HasHistory(o) ==
    {k \in SpacesOf(o) : \E q, r \in Changed(spaces[k], o) : q # r}

(* A page's history is exactly its past changes, newest first, in the last *)
(* object space that has any: none is lost, repeated or out of order, and  *)
(* the current state is not among them.                                    *)
HistoryIsChanges ==
    pc = "done" => \A k \in DOMAIN result :
        LET o == result[k].page.oid
        IN  IF include /\ HasHistory(o) # {}
            THEN IsHistoryIn(result[k].history, spaces[Max(HasHistory(o))], o)
            ELSE result[k].history = <<>>

(* The pages of a series are the current pages of its object spaces in the *)
(* order of the references, whatever the history is: a page without a past *)
(* is not lost.                                                            *)
CurrentPagesInOrder ==
    pc = "done" => [k \in DOMAIN result |-> result[k].page] =
        FlattenSeq([j \in DOMAIN spaces |-> Extract(spaces[j].revisions[spaces[j].latest])])
=============================================================================
