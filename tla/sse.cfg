SPECIFICATION FairSpec
CONSTANTS
    darryl = darryl
    kevin = kevin
    page = page
    board = board
    Publishers = {darryl, kevin}
    Clients = {page, board}
    RunOf <- RunOfAgents
    Follows <- FollowsOf
    Cap = 2
    MaxEvents = 2
INVARIANTS NoSendOnClosed OwnRunInOrder NothingMissed
PROPERTY NobodyWaitsForClients
CHECK_DEADLOCK FALSE
