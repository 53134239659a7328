SPECIFICATION FairSpec
CONSTANTS
    ask = ask
    chat = chat
    dm = dm
    more = more
    TopLevel = TopLevel
    Posts = {ask, dm}
    Mentions = {ask}
    Kind <- KindOfPosts
    Thread <- ThreadOfPosts
    SeenLimit = 1
    HistoryLimit = 1
    Twice = {dm}
    Faults = {"db", "slack", "agent", "crash"}
INVARIANTS TypeOK RepliesInvited HandledOnce EyesMeanWorking NothingSlips
PROPERTY ListenedAnswered
CHECK_DEADLOCK FALSE
