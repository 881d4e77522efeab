SPECIFICATION ServiceSpec
CONSTANTS
    Users = {u1, u2}
    Admins = {u1}
    Names = {n1, n2}
    Requests = {q1, q2}
    LobbyIds = {l1, l2}
    BotIds = {b1, b2}
    ExportIds = {e1, e2}
    ReportIds = {r1}
    ConfigKeys = {k1}
    None = None
    MaxRequests = 3
INVARIANTS
    ServiceTypeOK
    LogExplainsState
PROPERTIES
    ChecksAreKept
    PowerIsHeld
    ActiveFollowsRequest
    LiveFollowsCause
    SilentBotGoesOffline
    ExportIsKept
    StaleExportIsRemoved
CHECK_DEADLOCK FALSE
