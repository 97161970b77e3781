CONSTANTS
    Member = {c1, c2}
    Nonce = {n1, n2}
    ROOM_CHAT_RETAINED_MESSAGES = 1
    CLIENT_CHAT_RETAINED_MESSAGES = 3
    MaxEpoch = 2
    MaxRequests = 1
    MaxStored = 3
SYMMETRY Symmetry
SPECIFICATION Spec
INVARIANTS
    TypeOK
    ViewsAgree
