\* Safety, refinement, and liveness when no connection is closed.
SPECIFICATION FairSpec
CONSTANTS
    Threads = {t1, t2, t3, t4}
    Connections = {c1, c2}
    NoWrapper = NoWrapper
INVARIANTS
    TypeOK
    PopFindsConnection
    LentOnce
    PermitsCountConnections
PROPERTIES
    PoolSpec
    WaiterIsServedUnlessClosed
\* Every connection may be lost.
CHECK_DEADLOCK FALSE
