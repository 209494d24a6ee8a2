SPECIFICATION Spec
CONSTANTS
    Threads = {t1, t2, t3}
    Max = 2
    MaxMembers = 3
    NoMember = NoMember
    Programs = {
        {"create", "invalid", "check", "clear", "cancel"},
        {"create", "validate", "dispose", "clear", "cancel"},
        {"invalid", "dispose", "cancel"},
        {"check", "check_raises", "clear", "cancel"}}
    SplitCancel = FALSE
SYMMETRY ThreadSymmetry
INVARIANTS CountExact OnePlace FreshOrSpared
CHECK_DEADLOCK FALSE
