\* Two requests at a time on one room for three: every race of two handlers.
\* SeatBudget counts promised seats and MembershipBudget promised rows, so
\* three users and three rows are enough to break either.
CONSTANTS
    Users = {u1, u2, u3}
    Rooms = {r1}
    Requests = {q1, q2}
    PartIds = {p1, p2, p3}
    Capacities = {3}
    Invitees = {u3}
    None = None
SPECIFICATION Spec
SYMMETRY Symmetry
INVARIANTS
    TypeOK
    SeatBudget
    MembershipBudget
    NoAbandonedRoom
PROPERTIES
    EmptyRoomOnlyDrains
    ChecksAreKept
