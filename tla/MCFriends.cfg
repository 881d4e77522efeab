\* Two users, two friendships, three notifications, two of them at most while
\* they are marked and counted.
CONSTANTS
    Users = {a, b}
    NoteIds = {n1, n2, n3}
    Requests = {q1, q2}
    FriendIds = {f1, f2}
    None = None
    MaxNotes = 2
SPECIFICATION MCSpec
SYMMETRY Symmetry
INVARIANTS
    SocialTypeOK
    ListedOnce
    PartnersAreTold
    CountsDrift
PROPERTIES
    FriendshipLifecycle
    NotificationLifecycle
