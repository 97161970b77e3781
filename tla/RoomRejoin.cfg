CONSTANTS
    Nil = Nil
    RoomId = {r1}
    Instance = {i1}
    AccessMode = {"open"}
    Password = {}
    Commitment = {k1}
    Endpoint = {e1, e2}
    Profile = {p1, p2}
    Ticket = {t1, t2}
    DevRoom = {}
    MaxRoomParticipants = 1
    MaxEpoch = 2
    MaxClientId = 3
SPECIFICATION Spec
SYMMETRY Symmetry
INVARIANTS
    RejoinReplacesStaleEndpoint
