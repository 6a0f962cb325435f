\* Liveness with PasswordCompare as it is.
SPECIFICATION FairSpec
CONSTANTS
    Threads = {t1, t2, t3}
    Connections = {c1, c2}
    NoWrapper = NoWrapper
PROPERTY
    WaiterIsServed
CHECK_DEADLOCK FALSE
