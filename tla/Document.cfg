CONSTANTS
    Files <- MCFiles
    OptionSets <- MCOptions
    MaxEdits = 3
SPECIFICATION MCSpec
INVARIANTS ImagesShareData DrawnOnceInOrder NumbersCount MarkersOnce NodesFormTree DrawnIsInDocument
