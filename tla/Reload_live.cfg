SPECIFICATION ReloadFairSpec
CONSTANTS
    a = a
    Key = {a}
    NoKey = NoKey
    Caller = {c1}
    Calls <- NoCalls
    MaxRun = 2
    MaxVersion = 2
    MaxEpoch = 1
    Threshold = 1
    Asks = {"Changed", "Fresh"}
    MayStop = FALSE
CHECK_DEADLOCK FALSE
PROPERTIES
    CallersAnswered
    KeepsFlight
