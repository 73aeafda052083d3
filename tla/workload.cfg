SPECIFICATION MCSpec
CONSTANTS
    u1 = u1
    u2 = u2
    None = None
    Units = {u1, u2}
    Scenarios <- WorkloadScenarios
    Faults = {"remove", "configure", "refresh", "pod", "wipe", "receivers", "options"}
    MaxFaults = 1
    MaxElections = 1
    MaxUrl = 1
    Files <- MCFiles
    FilesOf <- MCFilesOf
    Unparsable <- MCUnparsable
    OptionSets <- MCOptionSets
    Offers <- AllOffers
INVARIANTS
    SettledLayer
    SettledSchema
    SettledRules
CHECK_DEADLOCK FALSE
