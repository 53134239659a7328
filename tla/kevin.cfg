SPECIFICATION Spec
CONSTANTS
    hi = hi
    digest = digest
    reminder = reminder
    r1 = r1
    Messages = {hi}
    Jobs = {digest, reminder}
    Rows = {r1}
    MaxConcurrent = 2
    MaxAttempts = 2
    MaxNudges = 2
    MaxRestarts = 1
SYMMETRY AnyJob
INVARIANT AnsweredOnce
