CONSTANTS
    Oids = {p1, p2}
    Texts = {t1, t2}
    NoOid = NoOid
    MaxSpaces = 2
    MaxRevisions = 4
SPECIFICATION Spec
INVARIANTS HistoryIsChanges CurrentPagesInOrder
SYMMETRY Interchangeable
