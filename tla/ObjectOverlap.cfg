\* Objects that do not fill their chunks, as ResultPacket: 1024 bytes for 288.
SPECIFICATION Spec
CONSTANTS
    Threads = {t1, t2, t3, t4}
    Size = 6
    GroupSize = 3
    TypeSize = 2
    MaxPage = 3
    MaxKept = 1
    NoThread = NoThread
INVARIANT
    ObjectsApart
CHECK_DEADLOCK FALSE
