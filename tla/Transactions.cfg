\* Services over borrowed connections, with statements and commits that fail.
SPECIFICATION Spec
CONSTANTS
    Threads = {t1, t2, t3}
    Connections = {c1, c2}
    NoWrapper = NoWrapper
    Earlier = Earlier
INVARIANTS
    TypeOK
    IdleIsClean
    ReportedIsCommitted
    RefusedStoresNothing
SYMMETRY Symmetry
\* When every connection is dropped nothing runs.
CHECK_DEADLOCK FALSE
