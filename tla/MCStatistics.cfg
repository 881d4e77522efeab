SPECIFICATION Spec
CONSTANTS
    u1 = u1
    u2 = u2
    b1 = b1
    b2 = b2
    m1 = m1
    m2 = m2
    m3 = m3
    Users = {u1, u2}
    Bots = {b1, b2}
    Owner <- MCOwner
    Matches = {m1, m2, m3}
    Lineup <- MCLineup
    Scores <- MCScores
    None = None
INVARIANTS
    TypeOK
    JobAgreesWithQueries
    JobIsGenerous
    StreakIsLastRun
    MixedTableNeverHelps
    HistoryCanBeOpened
