CONSTANTS
    Member = {c1}
    Nonce = {n1}
    ROOM_CHAT_RETAINED_MESSAGES = 2
    CLIENT_CHAT_RETAINED_MESSAGES = 3
    MaxEpoch = 1
    MaxRequests = 2
    MaxStored = 1
SYMMETRY Symmetry
SPECIFICATION Spec
INVARIANT GivenUpAfterItsHistory
