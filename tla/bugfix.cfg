SPECIFICATION FairSpec
CONSTANTS
    a = a
    Ids = {a}
    MaxNudges = 2
    MaxDarryls = 2
INVARIANT TypeOK
PROPERTIES
    StuckMeansSilent
    SettledStaysSettled
    WaitingRowNudged
