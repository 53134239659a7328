SPECIFICATION FairSpec
CONSTANTS
    Lines <- AllLines
    MaxLines = 3
    MaxToken = 2
    PipeSize = 2
INVARIANTS AnswerIsOutput PipeIsRead
PROPERTY Returns
CHECK_DEADLOCK FALSE
