CONSTANTS
    Rids = {r1, r2, r3}
    Zero = Zero
    Default = Default
    Contexts = {Default, c1}
    Roles = {1, 2}
    Keys = {}
    RootKinds = {TRUE, FALSE}
    Strict = FALSE
    MaxDeclared = 2
    MaxInside = 0
SPECIFICATION Spec
INVARIANT SectionRootsAreIndexed
