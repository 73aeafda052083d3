CONSTANTS
    u1 = u1
    u2 = u2
    c1 = c1
    c2 = c2
    Units = {u1}
    Creds = {c1}
    Tokens = {}
    Endpoints = {"database"}
    Configs <- HostedConfigs
    Links <- OneLink
    Disturbances = {"integrate", "remove", "container", "pod", "crash"}
    MaxDisturbances = 2
    None = None
    NoPlan = NoPlan
    Stopped = Stopped
SPECIFICATION FairSpec
INVARIANTS
    TypeOK
PROPERTIES
    EventuallyServing
    EventuallyStored
