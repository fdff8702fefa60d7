CONSTANTS
    Lists = {l1, l2}
    Frags = {f1, f2}
    Sentinel = Sentinel
    Nil = Nil
    OutOfFile = OutOfFile
    TooSmall = TooSmall
    MaxCount = 2
    MaxEntries = 2
    MaxLimit = 2
SPECIFICATION MCSpec
INVARIANTS ReturnsCommittedCounts LatestCommittedWins NothingReadAfterLimit
PROPERTIES ImplementsCommittedView AcyclicTerminates
