SPECIFICATION Spec
CONSTANTS
    Incoming = {1}
    Outgoing = {2}
    Handlers <- TwoHandlers
    Copies = 2
    MaxOps = 2
    Page = 1
    NoRow = NoRow
    h1 = h1
    h2 = h2
CHECK_DEADLOCK FALSE
SYMMETRY HandlerSymmetry
INVARIANTS
    OutgoingHonest
    NoOrphan
    ReceiptOnce
    UnreadIsExact
    ReceiptTakesEffect
PROPERTY
    SeenIsFinal
