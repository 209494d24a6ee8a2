SPECIFICATION Spec
CONSTANTS
    Threads = {t1, t2, t3}
    SplitCancel = FALSE
    Cancelable = {"lock", "cond", "relock"}
    MaxPuts = 4
    NoValue = NoValue
    Hooks = {h1, h2, h3}
    Streams = {s1, s2}
    Readers = {r1, r2}
    MaxElements = 3
    MaxRead = 2
    Sizes = {1, 2}
    StreamPrograms = {
        {"from", "get", "cancel", "fail"},
        {"from_direct", "while", "peek", "fail"},
        {"push", "get", "clone", "alone"},
        {"push", "nget", "available", "alone"},
        {"push_bounded", "get", "cancel"}}
INVARIANTS MutualExclusion LockedIffHeld NoValueLost BlockedForAReason TurnOffWaits
PROPERTIES NotifiedResumes TurnOffEnds RefinesChannel
CHECK_DEADLOCK FALSE
