CONSTANTS
    u1 = u1
    u2 = u2
    c1 = c1
    c2 = c2
    Units = {u1}
    Creds = {c1}
    Tokens = {}
    Endpoints = {"database", "metrics_db"}
    Configs <- OneConfig
    Links <- OneLink
    Disturbances = {"integrate", "remove"}
    MaxDisturbances = 4
    None = None
    NoPlan = NoPlan
    Stopped = Stopped
SPECIFICATION DeployedSpec
INVARIANTS
    QuiescentDatabag
