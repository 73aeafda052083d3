SPECIFICATION FairSpec
CONSTANTS
    None = None
    Off = Off
    l1 = l1
    l2 = l2
    LoggingRelations = {"logging:1", "logging:2"}
    Proxy = "log-proxy"
    Scenarios <- MCScenarios
    LokiUnits = {l1, l2}
    FirstUrl = 1
    Urls <- MCUrls
    Containers = {"livepatch", "livepatch-schema-upgrade"}
    Workload = "livepatch"
    Faults = {"leave", "move", "remove", "container"}
    MaxFaults = 1
    MaxLokiUnits = 3
INVARIANTS
    TypeOK
    SettledForwarding
    SettledPromtail
    PromtailStops
PROPERTY
    EventuallyLogged
CHECK_DEADLOCK FALSE
