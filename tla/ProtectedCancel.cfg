SPECIFICATION Spec
CONSTANTS
    N = 3
    MaxArgs = 2
    Throttle = 42
    Storages = {0}
    UserRes = {"Fulfilled", "Rejected"}
    Programs = {{"task", "protected", "on_cancel", "wakeup", "cancel"}}
INVARIANTS NoTypeConfusion
CHECK_DEADLOCK FALSE
