SPECIFICATION Spec
CONSTANTS
    Threads = {t1, t2, t3}
    Max = 1
    MaxMembers = 3
    NoMember = NoMember
    Programs = {{"validate"}}
    SplitCancel = FALSE
INVARIANTS AtMostMax
CHECK_DEADLOCK FALSE
