\* Two users and a bot, failures, deletions, and users who are suspended and
\* activated again.  The update-statistics job does not run.
CONSTANTS
    u1 = u1
    u2 = u2
    b1 = b1
    m1 = m1
    Users = {u1, u2}
    Bots = {b1}
    Matches = {m1}
    Lineup <- MCThreeLineup
    Delta <- MCThreeDelta
    Elo <- MCThreeElo
    InitialRank = 2
    MayGo = {u1, b1}
    MaxFaults = 1
    MaxModerations = 2
    None = None
SPECIFICATION ConvergeSpec
PROPERTIES
    MessageIsSettled
    RatingsConverge
