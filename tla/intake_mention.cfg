SPECIFICATION FairSpec
CONSTANTS
    ask = ask
    chat = chat
    dm = dm
    more = more
    TopLevel = TopLevel
    Posts = {ask}
    Mentions = {ask}
    Kind <- KindOfPosts
    Thread <- ThreadOfPosts
    SeenLimit = 5
    HistoryLimit = 1
    Twice = {}
    Faults = {}
PROPERTY MentionAnswered
CHECK_DEADLOCK FALSE
