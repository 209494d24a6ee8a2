SPECIFICATION Spec
CONSTANTS
    N = 4
    MaxArgs = 2
    Throttle = 1
    Storages = {0, 1}
    UserRes = {"Fulfilled", "Rejected"}
    Programs = {
        {"task", "bind", "try_bind", "on_any", "on_cancel", "wakeup", "wakeup_later", "cancel"},
        {"task", "wait", "catch", "protected", "no_cancel", "wakeup", "cancel"},
        {"task", "bind", "join", "choose", "nchoose", "wakeup", "cancel"},
        {"task", "pick", "npick", "wakeup", "cancel"},
        {"task", "map", "on_failure", "with_value", "wakeup_later"},
        {"task", "bind", "async", "on_success", "wakeup", "wakeup_later", "raise", "abandon_wakeups"}}
INVARIANTS NoTypeConfusion CombinatorsAgree CallbacksRunOnce NoLostCallback StorageRestored
PROPERTIES CancelExact
CHECK_DEADLOCK FALSE
