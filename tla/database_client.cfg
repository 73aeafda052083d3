SPECIFICATION FairSpec
CONSTANTS
    u1 = u1
    u2 = u2
    s1 = s1
    None = None
    Units = {u1, u2}
    Servers = {s1}
    Faults = {"remove", "elect", "crash", "scale"}
    MaxFaults = 1
    MaxLog = 4
INVARIANTS
    TypeOK
    SettledStored
    ToldAsRecorded
PROPERTIES
    StoresPublished
    ForwardOnly
    EventuallyConnected
CHECK_DEADLOCK FALSE
