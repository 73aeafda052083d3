CONSTANTS
    u1 = u1
    u2 = u2
    c1 = c1
    c2 = c2
    Units = {u1, u2}
    Creds = {c1}
    Tokens = {}
    Endpoints = {"database"}
    Configs <- OneConfig
    Links <- OneLink
    Disturbances = {"restart_action", "failed_action"}
    MaxDisturbances = 2
    None = None
    NoPlan = NoPlan
    Stopped = Stopped
SPECIFICATION DeployedSpec
SYMMETRY Symmetry
PROPERTIES
    HealthVerified
