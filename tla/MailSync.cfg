SPECIFICATION FairSpec
CONSTANTS
    MaxUid = 2
    MaxLoads = 1
    MsgId <- DistinctIds
    Kind <- MixedKinds
    Pushers <- OnePusher
    Fetcher = loop
    Loaders <- OneLoader
    h1 = h1
    l1 = l1
    idA = idA
    idB = idB
INVARIANTS
    NoSilentGap NoGapOnDisk
PROPERTIES
    DeliveryPromise
    OwedMailSettles
