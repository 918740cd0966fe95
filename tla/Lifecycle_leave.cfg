SPECIFICATION FairSpec
CONSTANTS
    a = a
    b = b
    Key = {a, b}
    Calls <- CallsRound
    Watches = {a, b}
    Poll <- PollOfA
    Count <- AllOnes
    Depth <- AllOnes
    DefaultPoll = 1
    Reads = {a, b}
INVARIANTS
    TypeOK
    WatchedWhileActive
PROPERTIES
    NoCalleeLeftBehind
    NoEarlyEviction
    AllLeave
