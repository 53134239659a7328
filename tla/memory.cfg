SPECIFICATION Spec
CONSTANTS
    a = a
    b = b
    Entries = {a, b}
    LastDay = 3
    Faults = {"mkdir", "write", "read"}
SYMMETRY AnyEntry
INVARIANTS AppendOnly TodayHasLog ConversationRemembers
