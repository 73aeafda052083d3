SPECIFICATION MCFairSpec
CONSTANTS
    u1 = u1
    u2 = u2
    None = None
    Units = {u1, u2}
    Scenarios <- MCScenarios
    Faults = {"remove", "configure", "refresh", "pod", "wipe", "receivers", "options"}
    MaxFaults = 1
    MaxElections = 1
    MaxUrl = 1
    Files <- MCFiles
    FilesOf <- MCFilesOf
    Unparsable <- MCUnparsable
    OptionSets <- MCOptionSets
    Offers <- AllOffers
INVARIANTS
    TypeOK
    SettledIngress
    SettledRoute
    RevokedUrlForgotten
    SettledScraped
    SettledDashboards
    SettledTracing
PROPERTIES
    EventuallyServed
CHECK_DEADLOCK FALSE
