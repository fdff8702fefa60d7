CONSTANTS
    Indices = {i1, i2}
    Guids = {g1, g2}
    ZeroGuid = ZeroGuid
    None = None
    Broken = Broken
    Plain = Plain
    MaxNodes = 5
SPECIFICATION Spec
INVARIANTS WalksResolveAlike IndexIsReplay
PROPERTY StrictSecondWalkAccepts
SYMMETRY Interchangeable
