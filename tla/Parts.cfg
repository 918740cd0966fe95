SPECIFICATION PartsSpec
CONSTANTS
    Checked = {"singleton", "puts", "streams", "watching", "fan-in", "config",
               "memos", "layers", "climb"}
    p1 = p1
    p2 = p2
    p3 = p3
    Proc = {p1, p2, p3}
    NoProc = NoProc
    MaxBuild = 2
    MaxCrash = 1
    above = above
    one = one
    two = two
    Node = {above, one, two}
    Below <- PutBelow
    Kind <- Kinds
    c1 = c1
    c2 = c2
    Conn = {c1, c2}
    Boot = Boot
    NoNode = NoNode
    MaxPut = 3
    MaxRestart = 1
    near = near
    far = far
    s1 = s1
    s2 = s2
    w1 = w1
    Stream = {s1, s2}
    Writer = {w1}
    Link = {near, far}
    Chain <- ChainOf
    NoLink = NoLink
    MaxWrite = 2
    MaxReload = 1
    i1 = i1
    r1 = r1
    Inst = {i1}
    Reader = {r1}
    NoInst = NoInst
    NoReader = NoReader
    MaxChange = 1
    MaxAsk = 2
    MaxPass = 2
    MaxRunOf = 1
    Sentinels = 2
    root = root
    x = x
    Address = {root, x}
    Root = root
    Shown = {0, 1}
    Reads <- ReadsOf
    Executes = {x}
    Cached = {root}
    Inputs <- InputsOf
    Output = {text}
    text = text
    NoHash = NoHash
    Refused = Refused
    MaxChangeAt = 2
    Files = 2
    Edit <- Edits
    MaxEdit = 3
    leafAbove = leafAbove
    leafBelow = leafBelow
    m1 = m1
    m2 = m2
    Dir = {near}
    Leaf = {leafAbove, leafBelow}
    Within <- WithinOf
    MemoWriter = {m1, m2}
    Tick = Tick
    Nobody = Nobody
    MaxMemo = 3
    whole = whole
    top = top
    left = left
    right = right
    Place = {whole, top, left, right}
    Whole = whole
    Under <- UnderOf
    Levels = 2
    Seeds = 2
    Given <- GivenTrees
    Stated <- StatedTrees
    MaxPutAt = 2
    k1 = k1
    Sources = 2
    Deep = 4
    Rule <- Rules
    Callee = {k1}
    ClimbReads <- ReadsMade
    MaxElse = 1
VIEW PartView
CHECK_DEADLOCK FALSE
INVARIANTS
    PartsTypeOK
    NoStartUnserved
    OnlyOwnersSignalled
    NoOldPutComesBack
    PutStands
    PutExpires
    StreamCaughtUp
    SubscribedIsHeard
    ChannelsCollected
    ReadSeesChange
    TableTellsTheTruth
    FanInCaughtUp
    NoStorm
    EditsReach
    BareKeysInForce
    DroppedIsMissed
    MemosEnd
    ReadsAsStacked
    NearestAnswers
    WaitedIsShown
