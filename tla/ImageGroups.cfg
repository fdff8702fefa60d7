CONSTANTS
    Files <- MCFiles
    OptionSets <- MCOptions
    MaxEdits = 3
SPECIFICATION MCSpec
INVARIANT ImagesFitTheirObject
