CONSTANTS
    Sites = {s1, s2}
    Emails = {e1, e2}
    Transports = {t1, t2, t3}
    Loads = {l1}
    MaxIds = 5
    MaxOps = 3
    None = None
SPECIFICATION RelaysSpec
SYMMETRY Symmetric
INVARIANTS
    RelaysTypeOK
    OnePrimary
    RelaysSurvive
