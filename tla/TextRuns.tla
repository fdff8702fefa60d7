-------------------------------- MODULE TextRuns --------------------------------
(***************************************************************************)
(* The cut of a rich text into runs of one style (_extract_text_runs in    *)
(* ms_one/entities/parsers.py) and the hyperlinks inferred from the field  *)
(* codes in it (_infer_hyperlink_spans_from_text).                         *)
(*                                                                         *)
(* A text is a sequence of symbols, of which only the field marker, the    *)
(* word HYPERLINK, the quote and the full stop matter.  Positions are the  *)
(* code's: a run or span [start, end) holds the symbols start + 1 .. end.  *)
(***************************************************************************)
EXTENDS Integers, Sequences, SequencesExt

CONSTANTS
    Texts,    \* texts
    Ends,     \* TextRunIndex: last positions of the runs
    Formats   \* TextRunFormatting: for each style whether it has a hyperlink

Symbols == {"marker", "keyword", "quote", "dot", "other"}
ASSUME TextsAreTexts == Texts \subseteq Seq(Symbols)
ASSUME EndsArePositions == Ends \subseteq Seq(Nat)
ASSUME FormatsSayLink == Formats \subseteq Seq(BOOLEAN)

\* Style 0 is the empty style; a link is the place of its opening quote.
NoLink  == -1
OwnLink == -2

VARIABLES
    text, ends, formats,   \* the record's properties
    doing,                 \* "cutting", "fields", "linking" or "done"
    next,                  \* i: the end to be taken next
    start,                 \* where the next run starts
    runs,                  \* runs: start, end, style and link
    scan,                  \* where the search for fields goes on
    spans                  \* spans: start, end and link

textVars == <<text, ends, formats, doing, next, start, runs, scan, spans>>

TextInit ==
    /\ text \in Texts /\ ends \in Ends /\ formats \in Formats
    /\ doing = IF <<>> \in {text, ends, formats} THEN "done" ELSE "cutting"
    /\ next = 1 /\ start = 0 /\ runs = <<>>
    /\ scan = 0 /\ spans = <<>>

-----------------------------------------------------------------------------
(* An extra leading format is passed over; a run may lack its format.      *)
FormatAtUnshifted(i) == IF i <= Len(formats) THEN i ELSE 0
FormatAt(i) ==
    LET at == IF Len(formats) = Len(ends) + 1 THEN i + 1 ELSE i
    IN IF at <= Len(formats) THEN at ELSE 0
Run(from, to, style) ==
    [start |-> from, end |-> to, style |-> style,
     link |-> IF style > 0 /\ formats[style] THEN OwnLink ELSE NoLink]

Cutting == doing = "cutting" /\ next <= Len(ends) /\ start < Len(text)
EndOfRun == Min({ends[next], Len(text) - 1}) + 1

TakeEnd ==
    /\ Cutting /\ EndOfRun > start
    /\ runs' = Append(runs, Run(start, EndOfRun, FormatAt(next)))
    /\ start' = EndOfRun
    /\ next' = next + 1
    /\ UNCHANGED <<text, ends, formats, doing, scan, spans>>

(* An end behind the start of the run makes no run, but has its format.    *)
PassEnd ==
    /\ Cutting /\ EndOfRun <= start
    /\ next' = next + 1
    /\ UNCHANGED <<text, ends, formats, doing, start, runs, scan, spans>>

(* Ends that stop short: the last style goes on.                           *)
Extend ==
    /\ doing = "cutting" /\ ~Cutting
    /\ runs' = IF start = Len(text) THEN runs
               ELSE Append(runs, Run(start, Len(text),
                                     IF runs = <<>> THEN 0 ELSE Last(runs).style))
    /\ doing' = "fields"
    /\ UNCHANGED <<text, ends, formats, next, start, scan, spans>>

-----------------------------------------------------------------------------
(* str.find: the first place of a symbol from a position on, or -1.        *)
Find(symbol, from) ==
    LET at == {i \in from..(Len(text) - 1) : text[i + 1] = symbol}
    IN IF at = {} THEN -1 ELSE Min(at)

Marker  == Find("marker", scan)
Opening == Find("quote", Marker + 2)
Closing == IF Opening < 0 THEN -1 ELSE Find("quote", Opening + 1)
IsField == Find("keyword", Marker + 1) = Marker + 1 /\ Closing >= 0

(* The display text ends at the first full stop or the next marker.        *)
DisplayEnd(from) ==
    Min({Len(text)} \cup {at \in {Find("dot", from), Find("marker", from)} : at >= 0})

PassMarker ==
    /\ doing = "fields" /\ Marker >= 0 /\ ~IsField
    /\ scan' = Marker + 1
    /\ UNCHANGED <<text, ends, formats, doing, next, start, runs, spans>>

TakeField ==
    /\ doing = "fields" /\ Marker >= 0 /\ IsField
    /\ LET from == Closing + 1
           to   == DisplayEnd(from)
       IN /\ spans' = IF to > from /\ Closing > Opening + 1
                      THEN Append(spans, [start |-> from, end |-> to, link |-> Opening])
                      ELSE spans
          /\ scan' = to
    /\ UNCHANGED <<text, ends, formats, doing, next, start, runs>>

EndFields ==
    /\ doing = "fields" /\ Marker < 0
    /\ doing' = "linking"
    /\ UNCHANGED <<text, ends, formats, next, start, runs, scan, spans>>

(* A run without link gets that of the first span it shares text with.     *)
OverlapWithin(run, span) == run.start >= span.start /\ run.end <= span.end
Overlap(run, span) == run.start < span.end /\ run.end > span.start
Linked(run) ==
    LET hit == SelectInSeq(spans, LAMBDA span : Overlap(run, span))
    IN IF run.link # NoLink \/ hit = 0 THEN run ELSE [run EXCEPT !.link = spans[hit].link]

LinkRuns ==
    /\ doing = "linking"
    /\ runs' = [i \in DOMAIN runs |-> Linked(runs[i])]
    /\ doing' = "done"
    /\ UNCHANGED <<text, ends, formats, next, start, scan, spans>>

TextStop == doing = "done" /\ UNCHANGED textVars

TextNext ==
    \/ TakeEnd \/ PassEnd \/ Extend
    \/ PassMarker \/ TakeField \/ EndFields \/ LinkRuns \/ TextStop
TextSpec == TextInit /\ [][TextNext]_textVars

-----------------------------------------------------------------------------
Covers(run, place) == run.start < place /\ place <= run.end

(* The runs of a text, if it has any, lie side by side from its beginning  *)
(* to its end, and every symbol has the format of the first run index that *)
(* reaches it, counted from the end where there is one format too many.    *)
RunsTile ==
    doing = "done" /\ runs # <<>> =>
        /\ runs[1].start = 0 /\ Last(runs).end = Len(text)
        /\ \A i \in 1..(Len(runs) - 1) : runs[i].end = runs[i + 1].start
        /\ \A i \in DOMAIN runs : runs[i].start < runs[i].end
        /\ \A place \in DOMAIN text, i \in DOMAIN ends :
             /\ ends[i] + 1 >= place
             /\ \A j \in 1..(i - 1) : ends[j] + 1 < place
             => \E run \in Range(runs) :
                  /\ Covers(run, place)
                  /\ LET at == IF Len(formats) = Len(ends) + 1 THEN i + 1 ELSE i IN
                     run.style = IF at \in DOMAIN formats THEN at ELSE 0

(* The display text of every field with an address is a link, it ends      *)
(* before the next field, and a link that no format has comes from a field *)
(* the run reaches into.                                                   *)
FieldsAreLinks ==
    doing = "done" /\ runs # <<>> =>
        /\ \A span \in Range(spans) : \A place \in (span.start + 1)..span.end :
             /\ text[place] \notin {"marker", "dot"}
             /\ \E run \in Range(runs) : Covers(run, place) /\ run.link # NoLink
        /\ \A run \in Range(runs) : run.link >= 0 =>
             \E span \in Range(spans) :
               /\ span.link = run.link
               /\ \E place \in DOMAIN text : Covers(run, place) /\ Covers(span, place)
=============================================================================
