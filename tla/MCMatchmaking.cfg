\* Three entries are enough for a recorded match, two for one too small to be
\* recorded; two requests race with the matchmaking service, a worker that
\* fails once, and the cleanup.  One player: no statement reads or writes
\* rows of two.
CONSTANTS
    Players = {a}
    QueueIds = {i1, i2, i3}
    Matches = {m1}
    Requests = {q1, q2}
    MatchSizes = {2, 3}
    MaxFaults = 1
    None = None
SPECIFICATION Spec
SYMMETRY Symmetry
INVARIANTS
    TypeOK
    MatchedHaveLeftQueue
    AcknowledgedIsDone
PROPERTIES
    QueueLifecycle
    ChecksAreKept
