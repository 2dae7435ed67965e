SPECIFICATION FairSpec
CONSTANTS
    Acc <- TwoAccounts
    NoAcc = nobody
    Joins <- OneJoin
    NoJoin = nojoin
    Handlers <- TwoHandlers
    MaxGen = 1
    MaxReloads = 1
    MaxForeign = 1
    alice = alice
    bob = bob
    j1 = j1
    j2 = j2
    h1 = h1
    h2 = h2
CHECK_DEADLOCK FALSE
PROPERTIES
    JoinSettles
