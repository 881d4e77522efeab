\* One player, one request at a time, under fair scheduling; three entries.
CONSTANTS
    Players = {a}
    QueueIds = {i1, i2, i3}
    Matches = {m1}
    Requests = {q1}
    MatchSizes = {2, 3}
    MaxFaults = 1
    None = None
SPECIFICATION FairSpec
PROPERTIES
    WaitingEnds
    MessageIsCarriedOut
