\* Leavers race each other and joiners under fair scheduling.
CONSTANTS
    Users = {u1, u2, u3}
    Rooms = {r1}
    Requests = {q1, q2}
    PartIds = {p1, p2, p3}
    Capacities = {3}
    Invitees = {}
    None = None
SPECIFICATION FairSpec
PROPERTIES
    DesertedRoomIsMarked
