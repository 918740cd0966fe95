SPECIFICATION Spec
CONSTANTS
    a = a
    b = b
    d = d
    Key = {a}
    NoKey = NoKey
    Caller = {c1}
    Calls <- NoCalls
    MaxRun = 3
    MaxVersion = 2
    MaxEpoch = 0
    Threshold = 1
    Asks = {"Cold", "Any", "Changed", "Fresh", "Forced"}
    MayStop = FALSE
CHECK_DEADLOCK FALSE
INVARIANTS
    TypeOK
    NoRunLost
    AnswersSeeTheAsk
PROPERTIES
    RecordsGoForward
    FailbackHolds
    KeepsFlight
