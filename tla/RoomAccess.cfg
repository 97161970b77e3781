CONSTANTS
    Nil = Nil
    RoomId = {r1}
    Instance = {i1, i2}
    AccessMode = {"open", "password"}
    Password = {w1}
    Commitment = {k1, k2}
    Endpoint = {e1, e2}
    Profile = {p1, p2}
    Ticket = {t1, t2}
    DevRoom = {r1}
    MaxRoomParticipants = 2
    MaxEpoch = 2
    MaxClientId = 3
SPECIFICATION Spec
SYMMETRY Symmetry
INVARIANTS
    SessionMatchesRoom
    RemovedStayOut
    

    
