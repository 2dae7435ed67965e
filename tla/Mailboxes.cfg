CONSTANTS
    sent = sent
    other = other
    Inbox = inbox
    Folders <- OneFolder
    Relays <- OneRelay
    MaxUid = 2
    Pushers = {h1}
SPECIFICATION BoxSpec
INVARIANTS
    OneMailPerUid
PROPERTIES
    LossIsAClash
