SPECIFICATION Spec
CONSTANTS
    c1 = c1
    c2 = c2
    c3 = c3
    thread = thread
    channel = channel
    Calls = {c1, c2, c3}
    Keys = {thread, channel}
    KeyOf <- TwoAndOne
    MaxConcurrent = 2
    NoSession = NoSession
    StoreFaults = TRUE
INVARIANTS SlotsAccounted NoCrossTalk LostOnlyToRivals
PROPERTY ImplementsGate
