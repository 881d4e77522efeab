\* Two players leave while the matchmaking service matches them.
CONSTANTS
    Players = {a, b}
    QueueIds = {i1, i2}
    Matches = {m1}
    Requests = {q1, q2}
    MatchSizes = {2}
    MaxFaults = 0
    None = None
SPECIFICATION Spec
SYMMETRY Symmetry
PROPERTY
    CancelledIsFinal
