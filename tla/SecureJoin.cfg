SPECIFICATION Spec
CONSTANTS
    Acc <- TwoAccounts
    NoAcc = nobody
    Joins <- TwoJoins
    NoJoin = nojoin
    Handlers <- OneHandler
    MaxGen = 2
    MaxReloads = 0
    MaxForeign = 0
    alice = alice
    bob = bob
    j1 = j1
    j2 = j2
    h1 = h1
    h2 = h2
CHECK_DEADLOCK FALSE
SYMMETRY JoinSymmetry
INVARIANTS
    NoPhaseSkipped
    ConfirmedMeansAccepted
    MutualVerification
