\* Two simultaneous joins for the last seat.
CONSTANTS
    Users = {u1, u2, u3, u4}
    Rooms = {r1}
    Requests = {q1, q2}
    PartIds = {p1, p2, p3, p4}
    Capacities = {3}
    Invitees = {}
    None = None
SPECIFICATION Spec
SYMMETRY Symmetry
INVARIANT
    CapacityRespected
