CONSTANTS
    Ids = {1, 2}
    Hashes = {1, 2, 3}
    Hash <- HashOf
    Tasks = {"root", "files", "hashed", "node"}
    MaxNodes = 3
    Signatures = {s1, s2}
    NoSignature = NoSignature
    Roles = {1, 2}
    MaxManifest = 4
    MaxGroup = 3
    FragmentPlaces = {p1, p2, p3, p4}
    ListIds = {i1, i2}
    NoList = NoList
    MaxCommitted = 3
    MaxSlots = 2
    MaxFragments = 3
SPECIFICATION FileSpec
INVARIANTS TypeOK OneChain LaterNodesCommitted TornTailIgnoredLater StrictImpliesTolerant FirstReferenceCounts IndexIgnoresOrder SignaturesReplay ContentInOrder
SYMMETRY Symmetry
