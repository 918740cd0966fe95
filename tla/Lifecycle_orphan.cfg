SPECIFICATION Spec
CONSTANTS
    a = a
    b = b
    Key = {a}
    Calls <- NoCalls
    Watches = {a}
    Poll <- PollOfA
    Count <- AllOnes
    Depth <- AllOnes
    DefaultPoll = 1
    Reads = {a}
INVARIANT
    NoOrphans
