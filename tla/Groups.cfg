SPECIFICATION Spec
CONSTANTS
    Members <- TwoMembers
    Names <- TwoNames
    Handlers <- TwoHandlers
    GroupId = GroupId
    LowerId = LowerId
    MaxOps = 3
    None = None
    h1 = h1
    h2 = h2
    alice = alice
    bob = bob
    n1 = n1
    n2 = n2
CHECK_DEADLOCK FALSE
SYMMETRY Symmetry
INVARIANTS
    NoLostUpdate
    ViewsAgree
    SnapshotFollows
    RowMirrorsGroup
