CONSTANTS
    u1 = u1
    u2 = u2
    c1 = c1
    c2 = c2
    Units = {u1, u2}
    Creds = {c1, c2}
    Tokens = {}
    Endpoints = {"database"}
    Configs <- UrlConfigs
    Links <- OneLink
    Disturbances = {"integrate", "remove", "rotate", "config", "crash"}
    MaxDisturbances = 2
    None = None
    NoPlan = NoPlan
    Stopped = Stopped
SPECIFICATION FairDeployedSpec
INVARIANTS
    QuiescentDatabag
PROPERTIES
    EventuallyServing
    EventuallyStored
