CONSTANTS
    u1 = u1
    u2 = u2
    c1 = c1
    c2 = c2
    Units = {u1, u2}
    Creds = {c1, c2}
    Tokens = {}
    Endpoints = {"database_legacy", "metrics_db"}
    Configs <- OneConfig
    Links <- OneLink
    Disturbances = {"integrate", "remove", "rotate", "container"}
    MaxDisturbances = 2
    None = None
    NoPlan = NoPlan
    Stopped = Stopped
SPECIFICATION DeployedSpec
SYMMETRY Symmetry
INVARIANTS
    QuiescentServing
    QuiescentDatabag
    ActiveIsServing
