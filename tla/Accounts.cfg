SPECIFICATION Spec
CONSTANTS
    Procs <- TwoProcs
    Emails <- TwoEmails
    Passwords <- TwoPasswords
    Metas <- Restores
    Disks <- Stored
    MaxSlots = 2
    MaxAccounts = 2
    MaxCalls = 3
    None = None
    p1 = p1
    p2 = p2
    alice = alice
    bob = bob
    old = old
    new = new
CHECK_DEADLOCK FALSE
SYMMETRY Symmetry
INVARIANTS
    TypeOK
    SlotsListed
    EventsOnce
    PasswordPinned
PROPERTIES
    KeyKept
