CONSTANTS
    u1 = u1
    u2 = u2
    c1 = c1
    c2 = c2
    Units = {u1, u2}
    Creds = {c1}
    Tokens = {t1}
    Endpoints = {"database"}
    Configs <- GatedConfigs
    Links <- AllLinks
    Disturbances = {"integrate", "links", "leader", "get_resource_token_action", "crash", "resolve", "restart_action"}
    MaxDisturbances = 2
    None = None
    NoPlan = NoPlan
    Stopped = Stopped
SPECIFICATION DeployedSpec
SYMMETRY Symmetry
INVARIANTS
    QuiescentServing
    ActiveIsServing
    LeaderServesDatabag
PROPERTIES
    OnlyLeaderWrites
