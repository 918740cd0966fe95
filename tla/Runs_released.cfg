SPECIFICATION FairSpec
CONSTANTS
    a = a
    b = b
    d = d
    Key = {a, b}
    NoKey = NoKey
    Caller = {}
    Calls <- OneCalls
    MaxRun = 3
    MaxVersion = 2
    MaxEpoch = 0
    Threshold = 1
    Asks = {"Changed"}
    MayStop = FALSE
CHECK_DEADLOCK FALSE
PROPERTIES
    ThreadsReleased
