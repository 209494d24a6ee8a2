SPECIFICATION Spec
CONSTANTS
    c1 = c1
    c2 = c2
    Calls = {c1, c2}
    NoCall = NoCall
    Statics = {"hostent", "protoent", "servent", "dirent"}
    MaxRetries = 1
    Mutexes <- MCMutexes
    Catalogue <- MCCatalogue
    Programs <- MCPrograms
    Threads = {t1, t2, t3}
    Nobody = Nobody
    MaxDetach = 3
    WorkerThreads = {w1, w2}
    Bounds <- MCBounds
    DefaultBounds <- MCDefaultBounds
    NoClient = 0
    NoWorker = NoWorker
    Rates = {9600, 115200, 12345}
INVARIANTS NoDangling Released ErrorFromCall BufferExact OwnEntry RecordIsStatus
PROPERTIES RefinesCondVariable DetachEnds
CHECK_DEADLOCK FALSE
