\* A result, a failure, a deletion, a suspension and both jobs, which start at
\* any time and as often as they like.
CONSTANTS
    u1 = u1
    u2 = u2
    b1 = b1
    m1 = m1
    Users = {u1}
    Bots = {b1}
    Matches = {m1}
    Lineup <- MCLineup
    Delta <- MCDelta
    Elo <- MCElo
    InitialRank = 2
    MayGo = {b1}
    MaxFaults = 1
    MaxModerations = 1
    None = None
SPECIFICATION Spec
INVARIANTS
    TypeOK
    AcknowledgedIsApplied
PROPERTIES
    PeakFallsOnlyInRace
