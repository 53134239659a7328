SPECIFICATION LimitSpec
CONSTANTS
    Keys = {ch1, ch2}
    Limit = 2
    Hour = 2
    MaxTime = 6
INVARIANTS RollingLimit RemembersTheHour RefusesOnlyFull
