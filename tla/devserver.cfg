SPECIFICATION ServerFairSpec
CONSTANTS
    s1 = s1
    s2 = s2
    s3 = s3
    stop = stop
    contracts = contracts
    suppliers = suppliers
    Starts = {s1, s2, s3}
    Stops = {stop}
    PortOf <- TwoApps
    NoCmd = NoCmd
    Crash = TRUE
INVARIANTS HolderReaps LostOnlyToLaunch
PROPERTY WatcherFinishes
CHECK_DEADLOCK FALSE
