SPECIFICATION FairSpec
CONSTANTS
    k1 = k1
    k2 = k2
    k3 = k3
    Requests = {k1, k2, k3}
    Plans <- PlansOf
    Fields = {"title", "time"}
    Named <- NamedBy
    Nobody = Nobody
    Lifetime = 3
    Margin = 1
    MaxTime = 4
INVARIANTS
    RefreshOnlyWhenStale
    TokenOutlivesRequest
    ReportedIsDone
PROPERTY WaiterServed
CHECK_DEADLOCK FALSE
