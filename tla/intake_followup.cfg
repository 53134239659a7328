SPECIFICATION Spec
CONSTANTS
    ask = ask
    chat = chat
    dm = dm
    more = more
    TopLevel = TopLevel
    Posts = {chat, more}
    Mentions = {chat}
    Kind <- KindOfPosts
    Thread <- ThreadOfPosts
    SeenLimit = 5
    HistoryLimit = 1
    Twice = {}
    Faults = {}
INVARIANT FollowUpKnowsThread
CHECK_DEADLOCK FALSE
