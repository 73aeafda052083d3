CONSTANTS
    u1 = u1
    u2 = u2
    c1 = c1
    c2 = c2
    Units = {u1, u2}
    Creds = {c1, c2}
    Tokens = {}
    Endpoints = {"database", "database_legacy"}
    Configs <- OneConfig
    Links <- OneLink
    Disturbances = {"integrate", "remove", "leader"}
    MaxDisturbances = 3
    None = None
    NoPlan = NoPlan
    Stopped = Stopped
SPECIFICATION SteadySpec
SYMMETRY Symmetry
INVARIANTS
    LeaderServesDatabag
    EndpointsExclusive
PROPERTIES
    OnlyLeaderWrites
    BrokenHookStops
