SPECIFICATION MutexSpec
CONSTANTS
    Threads = {t1, t2, t3}
    SplitCancel = TRUE
    Cancelable = {"lock"}
PROPERTIES UnlockHandsOver
CHECK_DEADLOCK FALSE
