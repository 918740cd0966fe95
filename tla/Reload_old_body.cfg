SPECIFICATION ReloadSpec
CONSTANTS
    a = a
    Key = {a}
    NoKey = NoKey
    Caller = {}
    Calls <- NoCalls
    MaxRun = 3
    MaxVersion = 2
    MaxEpoch = 1
    Threshold = 1
    Asks = {"Any", "Changed", "Fresh"}
    MayStop = FALSE
CHECK_DEADLOCK FALSE
INVARIANT
    NoRetiredBodyStays
