SPECIFICATION Spec
CONSTANTS
    Main = Main
    CThreads = {c1}
    OcamlThreads = {o1}
    Nobody = Nobody
    Ids = {i1, i2}
    BufferSize = 2
    MaxSends = 4
    Programs = {{}, {"raise", "fork"}, {"signal"}}
INVARIANTS SignaledIffPending NoLockCycle
PROPERTIES RefinesMailbox
CHECK_DEADLOCK FALSE
