CONSTANTS
    Rids = {r1, r2, r3}
    Zero = Zero
    Default = Default
    Contexts = {Default, c1}
    Roles = {1, 2}
    Keys = {k1}
    RootKinds = {FALSE}
    Strict = TRUE
    MaxDeclared = 2
    MaxInside = 1
SPECIFICATION Spec
INVARIANTS DependenciesPrecede AssignmentsResolve EncryptionIsUniform SelectionReplaysAssigned ChainIsComplete
PROPERTY OtherContextsKeepSelection
CONSTRAINT Bound
SYMMETRY RidSymmetry
