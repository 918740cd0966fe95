SPECIFICATION Spec
CONSTANTS
    a = a
    b = b
    d = d
    Key = {a, b, d}
    NoKey = NoKey
    Caller = {}
    Calls <- RoundThree
    MaxRun = 3
    MaxVersion = 1
    MaxEpoch = 0
    Threshold = 1
    Asks = {"Cold"}
    MayStop = TRUE
CHECK_DEADLOCK FALSE
INVARIANTS
    NoRing
    NoDeadlock
    NoRunLost
