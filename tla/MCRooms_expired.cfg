\* The cron job runs again and again on a room everybody has left.
CONSTANTS
    Users = {u1, u2}
    Rooms = {r1}
    Requests = {q1, q2}
    PartIds = {p1, p2}
    Capacities = {3}
    Invitees = {}
    None = None
SPECIFICATION FairSpec
PROPERTY
    DesertedRoomIsClosed
