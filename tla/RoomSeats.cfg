CONSTANTS
    Nil = Nil
    RoomId = {r1, r2}
    Instance = {i1, i2}
    AccessMode = {"open"}
    Password = {}
    Commitment = {k1}
    Endpoint = {e1, e2}
    Profile = {p1, p2}
    Ticket = {t1, t2}
    DevRoom = {}
    MaxRoomParticipants = 1
    MaxEpoch = 1
    MaxClientId = 2
SPECIFICATION FairSpec
INVARIANT SeatsAreExclusive
PROPERTIES
    SilentClientsDropped
    AbandonedRoomsRemoved
