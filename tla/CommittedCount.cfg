CONSTANTS
    FragmentPlaces = {p1, p2, p3, p4}
    ListIds = {i1, i2}
    NoList = NoList
    MaxCommitted = 3
    MaxSlots = 2
    MaxFragments = 3
SPECIFICATION ChainSpec
INVARIANT CommittedCountKept
