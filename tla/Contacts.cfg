SPECIFICATION Spec
CONSTANTS
    Peers <- TwoPeers
    Keys <- TwoKeys
    Handlers <- TwoHandlers
    Savers <- TwoSavers
    MaxOps = 4
    None = None
    alice = alice
    bob = bob
    k1 = k1
    k2 = k2
    h1 = h1
    h2 = h2
    s1 = s1
    s2 = s2
CHECK_DEADLOCK FALSE
SYMMETRY Symmetry
INVARIANTS
    RowIsRecord
    BlockInForce
    KeysSettle
