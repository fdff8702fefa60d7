CONSTANTS
    e1 = e1
    e2 = e2
    e3 = e3
    p1 = p1
    f1 = f1
    k1 = k1
    x = x
    y = y
    z = z
    Texts <- MCTexts
    Ends <- MCEnds
    Formats <- MCFormats
    Objects = {top, x, y, z}
    Top = top
    NoObject = NoObject
    References <- MCReferences
    Payloads <- MCPayloads
    Indexes <- MCIndexes
    max_depth = 2
    max_nodes = 4
    OutlineElements = {e1, e2, e3}
    Paragraphs = {p1}
    Files = {f1}
    Containers = {k1}
    Properties <- MCProperties
    Inner <- MCInner
    TagLists <- MCTagLists
    Guids = {g1, g2}
    None = None
    Limit = 3
    MaxIndex = 3
    MaxCopy = 2
    MaxOps = 2
SPECIFICATION EntitySpec
INVARIANTS NewElementsPreferred
