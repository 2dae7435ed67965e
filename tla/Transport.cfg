SPECIFICATION FairSpec
CONSTANTS
    MaxSockets = 3
    MaxCalls = 2
    Callers <- TwoCallers
    Handshake = handshake
    c1 = c1
    c2 = c2
CHECK_DEADLOCK FALSE
INVARIANTS
    OneLiveSocket
    NoLostWaiter
    FailedIsNotLive
    AnswerReachesAsker
PROPERTIES
    CallsSettle
