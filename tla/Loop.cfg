SPECIFICATION LoopSpec
CONSTANTS
    Seqs = {paused, tmp1, tmp2}
    Nodes = {n1, n2, n3, n4}
    NoSeq = NoSeq
    RemoveCleared = TRUE
    paused = paused
    Programs = {{"cancel"}, {"abandon"}}
    Sides = {s1, s2}
    IoEvents = {e1, e2}
    Timers = {t1, t2}
    Delays = {0, 1}
    EnginePrograms = {{e1, e2, "fake"}, {e1, e2, "close"}, {t1, t2}, {e1, t1}}
    NoSide = NoSide
    NoEvent = NoEvent
    MaxNesting = 2
    Timeouts = {x1, x2}
    Durations = {1, 2, 3}
    Off = Off
    Keys = {k1, k2}
    Rate = 2
    MaxPending = 3
    MaxCalls = 6
INVARIANTS CountCoversPaused
PROPERTIES WokenExactly RefinesEvents RefinesAlarms RefinesLimiter
CHECK_DEADLOCK FALSE
