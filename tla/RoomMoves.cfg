CONSTANTS
    Nil = Nil
    RoomId = {r1, r2}
    Instance = {i1, i2}
    AccessMode = {"open"}
    Password = {}
    Commitment = {k1}
    Endpoint = {e1, e2}
    Profile = {p1, p2}
    Ticket = {t1, t2, t3}
    DevRoom = {}
    MaxRoomParticipants = 2
    MaxEpoch = 1
    MaxClientId = 3
SPECIFICATION Spec
SYMMETRY Symmetry
INVARIANTS
    TypeOK
    NonceRecorded
    RelayReachesRoom
