\* Objects that fill their chunks.
SPECIFICATION Spec
CONSTANTS
    Threads = {t1, t2, t3, t4}
    Size = 8
    GroupSize = 4
    TypeSize = 2
    MaxPage = 3
    MaxKept = 2
    NoThread = NoThread
INVARIANTS
    TypeOK
    ObjectsApart
    InsidePage
    GrowsWhenAllLent
SYMMETRY ThreadSymmetry
